---- MODULE Spec2Model ----
(***************************************************************************)
(* Verification model of the hybrid memory graph engine                    *)
(* (@openaikits/memory): the PostgreSQL storage adapter, the orchestration *)
(* layer MemoryStorage, the tool handler MemoryToolHandler, the two graph  *)
(* traversals (in-process BFS and the recursive SQL functions) and the     *)
(* retry loop of EmbeddingService.                                         *)
(*                                                                         *)
(* The specifications share the variables:                                 *)
(*   Spec            tool-handler calls, one call at a time;               *)
(*   SpecInterleaved tool-handler calls that overlap at their awaits;      *)
(*   SpecStorage     calls of MemoryStorage itself;                        *)
(*   SpecTrav        the traversals on a graph from a bounded family;      *)
(*   SpecRetry       EmbeddingService.withRetry against a failing provider.*)
(***************************************************************************)
EXTENDS Integers, Sequences, FiniteSets, TLC

(***************************************************************************)
(* Bounds of the model.                                                    *)
(***************************************************************************)
\* number of memory ids (rows ever inserted; ids are never reused)
MaxIds == 3
\* longest relatedMemoryIds list a create call is given
MaxRelated == 2
\* longest outgoingEdges list of the graphs the traversals run on
MaxOut == 2
\* the depths the traversals are asked for: 0..MaxDepth, and one depth
\* beyond the length of every path
MaxDepth == 3
DeepDepth == 10
\* the largest maxRetries a caller configures
MaxRetriesGiven == 2
\* number of rows the direct MemoryStorage calls insert
MaxStored == 2
\* handler calls in progress at the same time, and handler calls begun in
\* one behaviour, when calls interleave
NumProcs == 2
MaxCalls == 4
\* number of handler calls begun on a table that is full already
MaxRacing == 2
Ids == 1..MaxIds

\* the empty string given as a memory UUID
EmptyId == 0

(***************************************************************************)
(* Text.  A text is a sequence of characters; " " is whitespace.           *)
(***************************************************************************)
RECURSIVE TrimStart(_)
TrimStart(s) ==
  IF s # <<>> /\ Head(s) = " " THEN TrimStart(Tail(s)) ELSE s

RECURSIVE TrimEnd(_)
TrimEnd(s) ==
  IF s # <<>> /\ s[Len(s)] = " " THEN TrimEnd(SubSeq(s, 1, Len(s) - 1)) ELSE s

\* String.prototype.trim
Trim(s) == TrimEnd(TrimStart(s))

\* !s || s.trim().length === 0
IsBlank(s) == s = <<>> \/ Len(Trim(s)) = 0

\* entity ids and contents the callers use
EntityInputs == { <<"p">>, <<"q">>, <<" ">> }
ContentInputs == { <<>>, <<" ">>, <<"a">>, <<" ", "b", " ">> }

(***************************************************************************)
(* Memory rows.                                                            *)
(***************************************************************************)
\* embedding column NULL / Memory.embedding undefined
NoEmbedding == <<>>

\* the provider's embedding of a text (AIModelAdapter.generateEmbedding,
\* deterministic provider)
ProviderEmbedding(text) == << text >>

\* an absent optional field of an update record, and a present one
Absent == <<>>
Given(v) == << v >>
IsGiven(opt) == opt # <<>>
ValueOf(opt) == opt[1]

\* the Memory type (without the timestamps, which no claim reads)
Memory(entityId, content, embedding, outgoingEdges) ==
  [ entityId |-> entityId, content |-> content,
    embedding |-> embedding, outgoingEdges |-> outgoingEdges ]

\* no row read yet
NoMemory == Memory(<<>>, <<>>, NoEmbedding, <<>>)

\* the empty table
EmptyStore == [ x \in {} |-> NoMemory ]

\* updatedEdges.includes(id) / id = ANY(edges)
Includes(edges, id) == \E k \in 1..Len(edges) : edges[k] = id

\* Array.prototype.indexOf (1-based; 0 when absent)
IndexOf(edges, id) ==
  IF Includes(edges, id)
  THEN CHOOSE k \in 1..Len(edges) :
         edges[k] = id /\ \A j \in 1..(k - 1) : edges[j] # id
  ELSE 0

\* updatedEdges.splice(index, 1)
Splice1(edges, index) ==
  SubSeq(edges, 1, index - 1) \o SubSeq(edges, index + 1, Len(edges))

\* FilterOut that drops the first occurrence only
FilterFirst(edges, id) ==
  IF \E k \in 1..Len(edges) : edges[k] = id
  THEN LET k == CHOOSE k \in 1..Len(edges) :
                  edges[k] = id /\ \A j \in 1..(k - 1) : edges[j] # id
       IN SubSeq(edges, 1, k - 1) \o SubSeq(edges, k + 1, Len(edges))
  ELSE edges

\* m.outgoingEdges.filter(id => id !== memoryId)
RECURSIVE FilterOut(_, _)
FilterOut(edges, id) ==
  IF edges = <<>> THEN <<>>
  ELSE IF Head(edges) = id THEN FilterOut(Tail(edges), id)
       ELSE << Head(edges) >> \o FilterOut(Tail(edges), id)

(***************************************************************************)
(* PostgresAdapter.                                                        *)
(***************************************************************************)
\* INSERT ... RETURNING id: the row is stored under the generated id
AdapterCreateMemory(st, id, memory) ==
  [ x \in (DOMAIN st) \cup {id} |-> IF x = id THEN memory ELSE st[x] ]

\* SELECT * WHERE id = $1 returned a row
RowExists(st, id) == id \in DOMAIN st

\* UpdatedRow with a SET clause for entity_id
UpdatedRowWithEntity(row, updates) ==
  [ entityId |-> IF IsGiven(updates.entityId) THEN ValueOf(updates.entityId)
                 ELSE row.entityId,
    content |-> IF IsGiven(updates.content) THEN ValueOf(updates.content)
                ELSE row.content,
    embedding |-> IF IsGiven(updates.embedding) THEN ValueOf(updates.embedding)
                  ELSE row.embedding,
    outgoingEdges |-> IF IsGiven(updates.outgoingEdges)
                      THEN ValueOf(updates.outgoingEdges)
                      ELSE row.outgoingEdges ]

\* the row written by UPDATE ... SET: only content, embedding and
\* outgoing_edges have SET clauses; an entityId in the updates is ignored
UpdatedRow(row, updates) ==
  [ entityId |-> row.entityId,
    content |-> IF IsGiven(updates.content) THEN ValueOf(updates.content)
                ELSE row.content,
    embedding |-> IF IsGiven(updates.embedding) THEN ValueOf(updates.embedding)
                  ELSE row.embedding,
    outgoingEdges |-> IF IsGiven(updates.outgoingEdges)
                      THEN ValueOf(updates.outgoingEdges)
                      ELSE row.outgoingEdges ]

\* PostgresAdapter.updateMemory on an existing row (a missing row throws)
AdapterUpdateMemory(st, id, updates) ==
  [ st EXCEPT ![id] = UpdatedRow(st[id], updates) ]

NoUpdates ==
  [ content |-> Absent, embedding |-> Absent,
    outgoingEdges |-> Absent, entityId |-> Absent ]

\* PostgresAdapter.updateOutgoingEdges
AdapterUpdateOutgoingEdges(st, id, edges) ==
  AdapterUpdateMemory(st, id, [ NoUpdates EXCEPT !.outgoingEdges = Given(edges) ])

\* DELETE FROM memories WHERE id = $1
AdapterDeleteMemory(st, id) == [ x \in (DOMAIN st) \ {id} |-> st[x] ]

\* the ids of a set of rows, newest first (ORDER BY created_at DESC; ids are
\* handed out in creation order)
RECURSIVE NewestFirst(_)
NewestFirst(S) ==
  IF S = {} THEN <<>>
  ELSE LET m == CHOOSE x \in S : \A y \in S : y <= x
       IN << m >> \o NewestFirst(S \ {m})

\* RowsOfEntity without its WHERE clause
RowsOfAnyEntity(st, entityId) == DOMAIN st

\* WHERE entity_id = $1
RowsOfEntity(st, entityId) == { x \in DOMAIN st : st[x].entityId = entityId }

\* PostgresAdapter.getMemoriesByEntity (the ids of the rows returned)
GetMemoriesByEntity(st, entityId) == NewestFirst(RowsOfEntity(st, entityId))

(***************************************************************************)
(* MemoryStorage (the orchestration layer).                                *)
(***************************************************************************)
\* CreateGeneratesEmbedding that does not look at the embedding given
CreateGeneratesAlways(embedding, autoGenerateEmbedding, service) ==
  autoGenerateEmbedding /\ service

\* MemoryStorage.createMemory: !embedding && autoGenerateEmbedding &&
\* this.embeddingService
CreateGeneratesEmbedding(embedding, autoGenerateEmbedding, service) ==
  embedding = NoEmbedding /\ autoGenerateEmbedding /\ service

\* UpdateGeneratesEmbedding that does not look at the embedding given
UpdateGeneratesAlways(updates, service) ==
  /\ IsGiven(updates.content) /\ ValueOf(updates.content) # <<>>
  /\ service

\* MemoryStorage.updateMemory: updates.content && this.embeddingService &&
\* !updates.embedding
UpdateGeneratesEmbedding(updates, service) ==
  /\ IsGiven(updates.content) /\ ValueOf(updates.content) # <<>>
  /\ service
  /\ ~IsGiven(updates.embedding)

(***************************************************************************)
(* MemoryToolHandler.  A handler call is a machine: the table it works on  *)
(* and its own locals.  Every await of the handler is one step of the      *)
(* machine; a step yields the set of machines it can lead to.              *)
(***************************************************************************)
Params(op, content, entityId, related, memoryId, toId, action) ==
  [ op |-> op, content |-> content, entityId |-> entityId,
    relatedMemoryIds |-> related, memoryId |-> memoryId,
    toMemoryId |-> toId, action |-> action ]

NoParams == Params("none", <<>>, <<>>, <<>>, EmptyId, EmptyId, "")

\* the parameters of each of the four handlers
CreateParams(content, entityId, related) ==
  Params("create", content, entityId, related, EmptyId, EmptyId, "")
UpdateParams(memoryId, content) ==
  Params("update", content, <<>>, <<>>, memoryId, EmptyId, "")
LinkParams(fromId, toId, action) ==
  Params("link", <<>>, <<>>, <<>>, fromId, toId, action)
DeleteParams(memoryId) ==
  Params("delete", <<>>, <<>>, <<>>, memoryId, EmptyId, "")

\* a callback of a Promise.all: the row it works on, where it stands
\* ("read": getMemory pending, "write": updateOutgoingEdges pending, "done")
\* and the edge list it is about to write
Callback(id, st, edges) == [ id |-> id, st |-> st, edges |-> edges ]

AllDone(cbs) == \A j \in 1..Len(cbs) : cbs[j].st = "done"

\* the machine of a call that starts on table st
Machine(st, next, hist, service, params) ==
  [ store |-> st, nextId |-> next, created |-> hist, service |-> service,
    params |-> params, pc |-> "start", i |-> 0, embedding |-> NoEmbedding,
    newId |-> EmptyId, memory |-> NoMemory, updatedEdges |-> <<>>,
    cbs |-> <<>>, rejected |-> <<>>, success |-> FALSE, error |-> "",
    data |-> EmptyId, faulty |-> FALSE ]

\* the machine of a call during which the adapter can fail
FaultyMachine(st, next, hist, service, params) ==
  [ Machine(st, next, hist, service, params) EXCEPT !.faulty = TRUE ]

\* the handler returns { success, data?, error? }
Return(m, success, error, data) ==
  [ m EXCEPT !.pc = "done", !.success = success, !.error = error,
             !.data = data ]

\* an error thrown inside the handler's try block leaves the handler
\* uncaught
Escapes(m, error) == [ m EXCEPT !.pc = "raised", !.error = error ]

\* catch (error) { return { success: false, error: error.message } }
Catch(m, error) == Return(m, FALSE, error, EmptyId)

\* the error strings of the handler (the ids they interpolate are left out)
ErrContent == "Memory content is required and cannot be empty"
ErrEntity == "Entity ID is required"
ErrRelatedNotFound == "Related memory with UUID not found"
ErrRelatedEntity == "Related memory belongs to a different entity"
ErrUuid == "Memory UUID is required"
ErrNotFound == "Memory with UUID not found"
ErrFrom == "From memory UUID is required"
ErrTo == "To memory UUID is required"
ErrSelf == "Cannot link memory to itself"
ErrAction == "Action must be either 'add' or 'remove'"
ErrEntities == "Cannot link memories from different entities"
ErrExists == "Link already exists"
ErrNoLink == "Link does not exist"
ErrDelete == "Failed to delete memory"
\* thrown by PostgresAdapter.updateMemory
ErrAdapterNotFound == "Memory not found"
\* thrown by the embedding provider
ErrProvider == "provider error"
\* thrown by the adapter when the database fails
ErrAdapter == "database error"

(***************************************************************************)
(* MemoryToolHandler.handleCreateMemory.                                   *)
(***************************************************************************)
\* storage.createMemory up to its first await
EnterCreateMemory(m) ==
  IF CreateGeneratesEmbedding(NoEmbedding, TRUE, m.service)
  THEN [ m EXCEPT !.pc = "embed" ]
  ELSE [ m EXCEPT !.pc = "insert" ]

\* StartCreate without the check of the related memories
StartCreateUnchecked(m) ==
  IF IsBlank(m.params.content) THEN Return(m, FALSE, ErrContent, EmptyId)
  ELSE IF IsBlank(m.params.entityId) THEN Return(m, FALSE, ErrEntity, EmptyId)
  ELSE EnterCreateMemory(m)

\* the synchronous validation, up to the first await
StartCreate(m) ==
  IF IsBlank(m.params.content) THEN Return(m, FALSE, ErrContent, EmptyId)
  ELSE IF IsBlank(m.params.entityId) THEN Return(m, FALSE, ErrEntity, EmptyId)
  ELSE IF Len(m.params.relatedMemoryIds) > 0
  THEN [ m EXCEPT !.pc = "checkRelated", !.i = 1 ]
  ELSE EnterCreateMemory(m)

\* CheckRelated without the comparison of the entity ids
CheckRelatedAnyEntity(m) ==
  LET relatedId == m.params.relatedMemoryIds[m.i]
  IN IF ~RowExists(m.store, relatedId)
     THEN Return(m, FALSE, ErrRelatedNotFound, EmptyId)
     ELSE IF m.i < Len(m.params.relatedMemoryIds)
     THEN [ m EXCEPT !.i = m.i + 1 ]
     ELSE EnterCreateMemory(m)

\* one round of the validation loop: getMemory(relatedId) and its checks
CheckRelated(m) ==
  LET relatedId == m.params.relatedMemoryIds[m.i]
  IN IF ~RowExists(m.store, relatedId)
     THEN Return(m, FALSE, ErrRelatedNotFound, EmptyId)
     ELSE IF m.store[relatedId].entityId # m.params.entityId
     THEN Return(m, FALSE, ErrRelatedEntity, EmptyId)
     ELSE IF m.i < Len(m.params.relatedMemoryIds)
     THEN [ m EXCEPT !.i = m.i + 1 ]
     ELSE EnterCreateMemory(m)

\* embeddingService.generateEmbedding(content) of storage.createMemory and
\* storage.updateMemory: the provider's vector, or the error it ends with
GenerateEmbedding(m, ok) ==
  IF ok
  THEN [ m EXCEPT !.embedding = ProviderEmbedding(Trim(m.params.content)),
                  !.pc = IF m.params.op = "create" THEN "insert" ELSE "update" ]
  ELSE Catch(m, ErrProvider)

\* the callbacks of the Promise.all over relatedMemoryIds: each has called
\* getMemory(relatedId)
LinkCallbacks(related) ==
  [ j \in 1..Len(related) |-> Callback(related[j], "read", <<>>) ]

\* adapter.createMemory, then the start of the back-linking
InsertMemory(m) ==
  LET related == m.params.relatedMemoryIds
      memory == Memory(m.params.entityId, Trim(m.params.content),
                       m.embedding, related)
      n == [ m EXCEPT
               !.store = AdapterCreateMemory(m.store, m.nextId, memory),
               !.nextId = m.nextId + 1,
               !.created = [ x \in (DOMAIN m.created) \cup {m.nextId} |->
                               IF x = m.nextId THEN m.params.entityId
                               ELSE m.created[x] ],
               !.newId = m.nextId ]
  IN IF Len(related) > 0
     THEN [ n EXCEPT !.pc = "link", !.cbs = LinkCallbacks(related) ]
     ELSE Return(n, TRUE, "", n.newId)

\* LinkRead without the includes() test: the edge is appended again
LinkReadNoTest(cb, st, newId) ==
  IF RowExists(st, cb.id)
  THEN Callback(cb.id, "write", Append(st[cb.id].outgoingEdges, newId))
  ELSE Callback(cb.id, "done", <<>>)

\* a callback's getMemory(relatedId) returns: it is done when the row is
\* missing or has the edge already, else it calls updateOutgoingEdges
LinkRead(cb, st, newId) ==
  IF RowExists(st, cb.id) /\ ~Includes(st[cb.id].outgoingEdges, newId)
  THEN Callback(cb.id, "write", Append(st[cb.id].outgoingEdges, newId))
  ELSE Callback(cb.id, "done", <<>>)

\* AfterCallback as with Promise.allSettled: a callback that threw does not
\* reject
AfterCallbackAllSettled(m, cbs, resolved) ==
  IF AllDone(cbs) THEN resolved ELSE [ m EXCEPT !.cbs = cbs ]

\* the Promise.all resolves when its last callback is done.  When a callback
\* has thrown, the Promise.all has rejected with the first error thrown and
\* the handler's catch block has made the result; the callbacks still
\* pending go on all the same, and the call is over when the last is done
AfterCallback(m, cbs, resolved) ==
  IF ~AllDone(cbs) THEN [ m EXCEPT !.cbs = cbs ]
  ELSE IF m.rejected # <<>> THEN Catch([ m EXCEPT !.cbs = cbs ], m.error)
  ELSE resolved

\* callback j of the pending Promise.all throws
Rejects(m, j, error) ==
  [ m EXCEPT !.cbs[j] = Callback(m.cbs[j].id, "done", <<>>),
             !.rejected = Append(m.rejected, m.cbs[j].id),
             !.error = IF m.rejected = <<>> THEN error ELSE m.error ]

BackLinkRead(m, j) ==
  LET cbs == [ m.cbs EXCEPT ![j] = LinkRead(m.cbs[j], m.store, m.newId) ]
  IN AfterCallback(m, cbs, Return(m, TRUE, "", m.newId))

\* a callback's updateOutgoingEdges(relatedId, updatedEdges) returns, or
\* throws for a missing row
BackLinkWrite(m, j) ==
  IF RowExists(m.store, m.cbs[j].id)
  THEN LET n == [ m EXCEPT !.store = AdapterUpdateOutgoingEdges(
                                       m.store, m.cbs[j].id, m.cbs[j].edges) ]
           cbs == [ m.cbs EXCEPT ![j] = Callback(m.cbs[j].id, "done", <<>>) ]
       IN AfterCallback(n, cbs, Return(n, TRUE, "", n.newId))
  ELSE LET n == Rejects(m, j, ErrAdapterNotFound)
       IN AfterCallback(n, n.cbs, Return(n, TRUE, "", n.newId))

(***************************************************************************)
(* MemoryToolHandler.handleUpdateMemory.                                   *)
(***************************************************************************)
StartUpdate(m) ==
  IF m.params.memoryId = EmptyId THEN Return(m, FALSE, ErrUuid, EmptyId)
  ELSE IF IsBlank(m.params.content) THEN Return(m, FALSE, ErrContent, EmptyId)
  ELSE [ m EXCEPT !.pc = "getUpdate" ]

\* the updates record handleUpdateMemory hands to storage.updateMemory
ContentUpdates(content) == [ NoUpdates EXCEPT !.content = Given(Trim(content)) ]

\* getMemory(memoryId), then storage.updateMemory up to its first await
GetForUpdate(m) ==
  IF ~RowExists(m.store, m.params.memoryId)
  THEN Return(m, FALSE, ErrNotFound, EmptyId)
  ELSE IF UpdateGeneratesEmbedding(ContentUpdates(m.params.content), m.service)
  THEN [ m EXCEPT !.pc = "embed" ]
  ELSE [ m EXCEPT !.pc = "update" ]

\* StorageUpdates without the regenerated embedding
StorageUpdatesStale(content, embedding) == ContentUpdates(content)

\* the updates record storage.updateMemory hands to the adapter
StorageUpdates(content, embedding) ==
  [ ContentUpdates(content) EXCEPT
      !.embedding = IF embedding = NoEmbedding THEN Absent ELSE Given(embedding) ]

\* adapter.updateMemory(memoryId, updates)
UpdateRow(m) ==
  IF RowExists(m.store, m.params.memoryId)
  THEN Return([ m EXCEPT !.store = AdapterUpdateMemory(
                   m.store, m.params.memoryId,
                   StorageUpdates(m.params.content, m.embedding)) ],
              TRUE, "", m.params.memoryId)
  ELSE Catch(m, ErrAdapterNotFound)

(***************************************************************************)
(* MemoryToolHandler.handleUpdateMemoryLink.                               *)
(***************************************************************************)
Actions == { "add", "remove", "toggle" }

\* StartLink without the comparison of the two ids
StartLinkToItself(m) ==
  IF m.params.memoryId = EmptyId THEN Return(m, FALSE, ErrFrom, EmptyId)
  ELSE IF m.params.toMemoryId = EmptyId THEN Return(m, FALSE, ErrTo, EmptyId)
  ELSE IF m.params.action # "add" /\ m.params.action # "remove"
  THEN Return(m, FALSE, ErrAction, EmptyId)
  ELSE [ m EXCEPT !.pc = "getFrom" ]

StartLink(m) ==
  IF m.params.memoryId = EmptyId THEN Return(m, FALSE, ErrFrom, EmptyId)
  ELSE IF m.params.toMemoryId = EmptyId THEN Return(m, FALSE, ErrTo, EmptyId)
  ELSE IF m.params.memoryId = m.params.toMemoryId
  THEN Return(m, FALSE, ErrSelf, EmptyId)
  ELSE IF m.params.action # "add" /\ m.params.action # "remove"
  THEN Return(m, FALSE, ErrAction, EmptyId)
  ELSE [ m EXCEPT !.pc = "getFrom" ]

\* getMemory(fromMemoryId): the handler keeps the row it read
GetFrom(m) ==
  IF ~RowExists(m.store, m.params.memoryId)
  THEN Return(m, FALSE, ErrNotFound, EmptyId)
  ELSE [ m EXCEPT !.pc = "getTo", !.memory = m.store[m.params.memoryId] ]

\* GetTo with an idempotent add and an idempotent remove
GetToIdempotent(m) ==
  LET toId == m.params.toMemoryId
      edges == m.memory.outgoingEdges
  IN IF ~RowExists(m.store, toId)
     THEN Return(m, FALSE, ErrNotFound, EmptyId)
     ELSE IF m.memory.entityId # m.store[toId].entityId
     THEN Return(m, FALSE, ErrEntities, EmptyId)
     ELSE IF m.params.action = "add"
     THEN [ m EXCEPT !.pc = "writeLink",
                     !.updatedEdges = IF Includes(edges, toId) THEN edges
                                      ELSE Append(edges, toId) ]
     ELSE [ m EXCEPT !.pc = "writeLink",
                     !.updatedEdges = FilterOut(edges, toId) ]

\* getMemory(toMemoryId), the entity check and the new edge list, up to the
\* call of updateOutgoingEdges
GetTo(m) ==
  LET toId == m.params.toMemoryId
      edges == m.memory.outgoingEdges
  IN IF ~RowExists(m.store, toId)
     THEN Return(m, FALSE, ErrNotFound, EmptyId)
     ELSE IF m.memory.entityId # m.store[toId].entityId
     THEN Return(m, FALSE, ErrEntities, EmptyId)
     ELSE IF m.params.action = "add"
     THEN IF ~Includes(edges, toId)
          THEN [ m EXCEPT !.pc = "writeLink",
                          !.updatedEdges = Append(edges, toId) ]
          ELSE Return(m, FALSE, ErrExists, EmptyId)
     ELSE IF IndexOf(edges, toId) = 0
          THEN Return(m, FALSE, ErrNoLink, EmptyId)
          ELSE [ m EXCEPT !.pc = "writeLink",
                          !.updatedEdges = Splice1(edges, IndexOf(edges, toId)) ]

\* WriteLink that reads the row again and adds or removes the target in the
\* edges it finds there
WriteLinkMerging(m) ==
  IF RowExists(m.store, m.params.memoryId)
  THEN LET edges == m.store[m.params.memoryId].outgoingEdges
           toId == m.params.toMemoryId
       IN Return([ m EXCEPT !.store = AdapterUpdateOutgoingEdges(
                      m.store, m.params.memoryId,
                      IF m.params.action = "add"
                        THEN IF Includes(edges, toId) THEN edges
                             ELSE Append(edges, toId)
                        ELSE FilterOut(edges, toId)) ],
                 TRUE, "", m.params.memoryId)
  ELSE Catch(m, ErrAdapterNotFound)

\* WriteLink that adds the reverse edge as well
WriteLinkBothWays(m) ==
  IF RowExists(m.store, m.params.memoryId)
  THEN LET st == AdapterUpdateOutgoingEdges(m.store, m.params.memoryId,
                                            m.updatedEdges)
           toId == m.params.toMemoryId
       IN Return([ m EXCEPT !.store =
                     IF m.params.action = "add" /\ RowExists(st, toId)
                        /\ ~Includes(st[toId].outgoingEdges, m.params.memoryId)
                     THEN AdapterUpdateOutgoingEdges(
                            st, toId,
                            Append(st[toId].outgoingEdges, m.params.memoryId))
                     ELSE st ],
                 TRUE, "", m.params.memoryId)
  ELSE Catch(m, ErrAdapterNotFound)

\* storage.updateOutgoingEdges(fromMemoryId, updatedEdges)
WriteLink(m) ==
  IF RowExists(m.store, m.params.memoryId)
  THEN Return([ m EXCEPT !.store = AdapterUpdateOutgoingEdges(
                   m.store, m.params.memoryId, m.updatedEdges) ],
              TRUE, "", m.params.memoryId)
  ELSE Catch(m, ErrAdapterNotFound)

(***************************************************************************)
(* MemoryToolHandler.handleDeleteMemory.                                   *)
(***************************************************************************)
StartDelete(m) ==
  IF m.params.memoryId = EmptyId THEN Return(m, FALSE, ErrUuid, EmptyId)
  ELSE [ m EXCEPT !.pc = "getDelete" ]

\* getMemory(memoryId), then the call of getMemoriesByEntity
GetForDelete(m) ==
  IF ~RowExists(m.store, m.params.memoryId)
  THEN Return(m, FALSE, ErrNotFound, EmptyId)
  ELSE [ m EXCEPT !.pc = "list", !.memory = m.store[m.params.memoryId] ]

\* allMemories.filter(m => m.outgoingEdges.includes(memoryId)), and for each
\* the callback that has called updateOutgoingEdges(m.id, filtered edges)
RECURSIVE CleanupCallbacks(_, _, _)
CleanupCallbacks(st, ids, memoryId) ==
  IF ids = <<>> THEN <<>>
  ELSE LET id == Head(ids)
           rest == CleanupCallbacks(st, Tail(ids), memoryId)
       IN IF Includes(st[id].outgoingEdges, memoryId)
          THEN << Callback(id, "write", FilterOut(st[id].outgoingEdges, memoryId)) >>
               \o rest
          ELSE rest

\* ListForDelete without the cleanup writes
ListForDeleteOnly(m) == [ m EXCEPT !.pc = "delete" ]

\* getMemoriesByEntity(memory.entityId) returns; the cleanup writes start
ListForDelete(m) ==
  LET cbs == CleanupCallbacks(m.store,
                              GetMemoriesByEntity(m.store, m.memory.entityId),
                              m.params.memoryId)
  IN IF cbs = <<>> THEN [ m EXCEPT !.pc = "delete" ]
     ELSE [ m EXCEPT !.pc = "cleanup", !.cbs = cbs ]

\* one cleanup write returns, or throws for a missing row
CleanupWrite(m, j) ==
  IF RowExists(m.store, m.cbs[j].id)
  THEN LET n == [ m EXCEPT !.store = AdapterUpdateOutgoingEdges(
                                       m.store, m.cbs[j].id, m.cbs[j].edges) ]
           cbs == [ m.cbs EXCEPT ![j] = Callback(m.cbs[j].id, "done", <<>>) ]
       IN AfterCallback(n, cbs, [ n EXCEPT !.pc = "delete", !.cbs = <<>> ])
  ELSE LET n == Rejects(m, j, ErrAdapterNotFound)
       IN AfterCallback(n, n.cbs, [ n EXCEPT !.pc = "delete", !.cbs = <<>> ])

\* storage.deleteMemory(memoryId): success when a row was deleted
DeleteRow(m) ==
  LET n == [ m EXCEPT
               !.store = AdapterDeleteMemory(m.store, m.params.memoryId),
               !.created = [ x \in (DOMAIN m.created) \ {m.params.memoryId} |->
                               m.created[x] ] ]
  IN IF RowExists(m.store, m.params.memoryId)
     THEN Return(n, TRUE, "", EmptyId)
     ELSE Return(n, FALSE, ErrDelete, EmptyId)

(***************************************************************************)
(* Running a handler call.                                                 *)
(***************************************************************************)
\* the callbacks of the pending Promise.all that stand at st
Pending(m, st) == { j \in 1..Len(m.cbs) : m.cbs[j].st = st }

\* the awaited storage call rejects because the adapter fails, when the call
\* runs against an adapter that can fail
Faults(m) ==
  IF ~m.faulty \/ m.pc \in { "start", "embed", "done", "raised" } THEN {}
  ELSE IF m.pc \in { "link", "cleanup" }
  THEN { LET n == Rejects(m, j, ErrAdapter)
         IN AfterCallback(n, n.cbs,
                          IF m.pc = "link" THEN Return(n, TRUE, "", n.newId)
                          ELSE [ n EXCEPT !.pc = "delete", !.cbs = <<>> ]) :
           j \in Pending(m, "read") \cup Pending(m, "write") }
  ELSE { Catch(m, ErrAdapter) }

\* the machines one step of the call leads to: the awaited storage call
\* returns (any pending callback of a Promise.all may be the next to go on;
\* the embedding service may succeed or fail) or rejects
Step(m) ==
  Faults(m) \cup
  CASE m.pc = "start" ->
         { CASE m.params.op = "create" -> StartCreate(m)
             [] m.params.op = "update" -> StartUpdate(m)
             [] m.params.op = "link" -> StartLink(m)
             [] m.params.op = "delete" -> StartDelete(m) }
    [] m.pc = "checkRelated" -> { CheckRelated(m) }
    [] m.pc = "embed" -> { GenerateEmbedding(m, ok) : ok \in BOOLEAN }
    [] m.pc = "insert" -> IF m.nextId <= MaxIds THEN { InsertMemory(m) } ELSE {}
    [] m.pc = "link" -> { BackLinkRead(m, j) : j \in Pending(m, "read") }
                        \cup { BackLinkWrite(m, j) : j \in Pending(m, "write") }
    [] m.pc = "getUpdate" -> { GetForUpdate(m) }
    [] m.pc = "update" -> { UpdateRow(m) }
    [] m.pc = "getFrom" -> { GetFrom(m) }
    [] m.pc = "getTo" -> { GetTo(m) }
    [] m.pc = "writeLink" -> { WriteLink(m) }
    [] m.pc = "getDelete" -> { GetForDelete(m) }
    [] m.pc = "list" -> { ListForDelete(m) }
    [] m.pc = "cleanup" -> { CleanupWrite(m, j) : j \in Pending(m, "write") }
    [] m.pc = "delete" -> { DeleteRow(m) }
    [] m.pc = "done" -> {}
    [] m.pc = "raised" -> {}

\* the machines a call can end in when nothing else runs in between
RECURSIVE Run(_)
Run(m) ==
  IF m.pc \in { "done", "raised" } THEN { m } ELSE UNION { Run(n) : n \in Step(m) }

(***************************************************************************)
(* PostgresAdapter.getConnectedMemories: breadth-first search.             *)
(***************************************************************************)
Entry(id, depth) == [ id |-> id, depth |-> depth ]

\* the ids of a list
Range(seq) == { seq[k] : k \in 1..Len(seq) }

\* the ids of a list of entries or rows
IdsOf(rows) == { rows[k].id : k \in 1..Len(rows) }

\* visited, queue and results before the loop
BfsStart(memoryId) ==
  [ queue |-> << Entry(memoryId, 0) >>, visited |-> {}, results |-> <<>> ]

\* BfsSkips without the visited test
BfsSkipsByDepth(current, visited, depth) == current.depth > depth

\* visited.has(current.id) || current.depth > depth
BfsSkips(current, visited, depth) ==
  current.id \in visited \/ current.depth > depth

\* BfsEmits without the test for the starting memory
BfsEmitsFound(found, current) == found

\* memory && current.depth > 0
BfsEmits(found, current) == found /\ current.depth > 0

\* BfsExpands that stops one level early
BfsExpandsEarly(found, current, depth) == current.depth + 1 < depth /\ found

\* current.depth < depth && memory
BfsExpands(found, current, depth) == current.depth < depth /\ found

\* for (const edgeId of memory.outgoingEdges)
\*   if (!visited.has(edgeId)) queue.push({ id: edgeId, depth: current.depth + 1 })
RECURSIVE BfsPush(_, _, _, _)
BfsPush(queue, edges, visited, depth) ==
  IF edges = <<>> THEN queue
  ELSE BfsPush(IF Head(edges) \notin visited
               THEN Append(queue, Entry(Head(edges), depth))
               ELSE queue,
               Tail(edges), visited, depth)

\* one round of the while loop on a non-empty queue (the result rows keep
\* the depth they were found at)
BfsIteration(st, b, depth) ==
  LET current == Head(b.queue)
      queue == Tail(b.queue)
  IN IF BfsSkips(current, b.visited, depth)
     THEN [ b EXCEPT !.queue = queue ]
     ELSE LET visited == b.visited \cup { current.id }
              found == RowExists(st, current.id)
          IN [ visited |-> visited,
               results |-> IF BfsEmits(found, current)
                           THEN Append(b.results, current)
                           ELSE b.results,
               queue |-> IF BfsExpands(found, current, depth)
                         THEN BfsPush(queue, st[current.id].outgoingEdges,
                                      visited, current.depth + 1)
                         ELSE queue ]

\* the loop, to its end
RECURSIVE BfsLoop(_, _, _)
BfsLoop(st, b, depth) ==
  IF b.queue = <<>> THEN b.results
  ELSE BfsLoop(st, BfsIteration(st, b, depth), depth)

GetConnectedMemories(st, memoryId, depth) == BfsLoop(st, BfsStart(memoryId), depth)

(***************************************************************************)
(* The SQL functions get_connected_memories and                            *)
(* get_connected_memories_from_multiple: a recursive query.                *)
(***************************************************************************)
TreeRow(id, depth, path) == [ id |-> id, depth |-> depth, path |-> path ]

\* the base case: the starting rows, depth 0, visited_path = ARRAY[m.id]
TreeBase(st, startIds) ==
  { TreeRow(x, 0, << x >>) : x \in startIds \cap DOMAIN st }

\* TreeJoin that stops one level early
TreeJoinEarly(st, mt, id, maxDepth) ==
  /\ Includes(st[mt.id].outgoingEdges, id)
  /\ mt.depth + 1 < maxDepth
  /\ ~Includes(mt.path, id)

\* the join of the recursive case: m.id = ANY(mt.outgoing_edges), with
\* mt.depth < max_depth AND NOT (m.id = ANY(mt.visited_path))
TreeJoin(st, mt, id, maxDepth) ==
  /\ Includes(st[mt.id].outgoingEdges, id)
  /\ mt.depth < maxDepth
  /\ ~Includes(mt.path, id)

\* the rows the recursive case adds for the rows of the last round
TreeRecursive(st, rows, maxDepth) ==
  { TreeRow(pair[2], pair[1].depth + 1, Append(pair[1].path, pair[2])) :
      pair \in { q \in rows \X DOMAIN st : TreeJoin(st, q[1], q[2], maxDepth) } }

\* WITH RECURSIVE memory_tree: rounds until one adds no row
RECURSIVE TreeRounds(_, _, _, _)
TreeRounds(st, rows, all, maxDepth) ==
  IF rows = {} THEN all
  ELSE LET added == TreeRecursive(st, rows, maxDepth)
       IN TreeRounds(st, added, all \cup added, maxDepth)

MemoryTree(st, startIds, maxDepth) ==
  TreeRounds(st, TreeBase(st, startIds), TreeBase(st, startIds), maxDepth)

\* ORDER BY mt.id, mt.depth ASC
RECURSIVE OrderByIdDepth(_)
OrderByIdDepth(rows) ==
  IF rows = {} THEN <<>>
  ELSE LET r == CHOOSE r \in rows :
                  \A q \in rows :
                    r.id < q.id \/ (r.id = q.id /\ r.depth <= q.depth)
       IN << Entry(r.id, r.depth) >> \o OrderByIdDepth(rows \ {r})

\* SELECT DISTINCT ON (mt.id): the first row of every id
DistinctOnId(ordered) ==
  LET first == { k \in 1..Len(ordered) :
                   k = 1 \/ ordered[k - 1].id # ordered[k].id }
      F[k \in 0..Len(ordered)] ==
        IF k = 0 THEN <<>>
        ELSE IF k \in first THEN Append(F[k - 1], ordered[k]) ELSE F[k - 1]
  IN F[Len(ordered)]

\* WHERE mt.depth > 0
SelectSingle(tree) == { r \in tree : r.depth > 0 }

\* SelectMultiple without the test for the starting memories
SelectMultipleAll(tree, startIds) == { r \in tree : r.depth > 0 }

\* WHERE mt.depth > 0 AND NOT (mt.id = ANY(start_memory_ids))
SelectMultiple(tree, startIds) ==
  { r \in tree : r.depth > 0 /\ r.id \notin startIds }

\* get_connected_memories(start_memory_id, max_depth)
SqlGetConnectedMemories(st, startId, maxDepth) ==
  DistinctOnId(OrderByIdDepth(SelectSingle(MemoryTree(st, {startId}, maxDepth))))

\* get_connected_memories_from_multiple(start_memory_ids, max_depth)
SqlGetConnectedMemoriesFromMultiple(st, startIds, maxDepth) ==
  DistinctOnId(OrderByIdDepth(
    SelectMultiple(MemoryTree(st, startIds, maxDepth), startIds)))

(***************************************************************************)
(* EmbeddingService.                                                       *)
(***************************************************************************)
\* the defaults of the constructor
DefaultMaxRetries == 3
DefaultInitialDelayMs == 500
DefaultBackoffFactor == 2

\* options.x ?? default
OrDefault(opt, default) == IF IsGiven(opt) THEN ValueOf(opt) ELSE default

\* the options the constructor keeps
ServiceOptions(options) ==
  [ maxRetries |-> OrDefault(options.maxRetries, DefaultMaxRetries),
    initialDelayMs |-> OrDefault(options.initialDelayMs, DefaultInitialDelayMs),
    backoffFactor |-> OrDefault(options.backoffFactor, DefaultBackoffFactor),
    signal |-> options.signal ]

\* NormalizeText that does not trim
NormalizeTextAsIs(text) == text

\* normalizeText (a text that is null or undefined is the empty text here)
NormalizeText(text) == IF text = <<>> THEN <<>> ELSE Trim(text)

ErrEmptyText == "Text cannot be empty"
ErrAborted == "Operation aborted"
ErrRetries == "Failed after retries"

\* a call of generateEmbedding(text) that has not started
RetryCall(options, text) ==
  [ options |-> ServiceOptions(options), text |-> text, pc |-> "start",
    attempt |-> 0, delay |-> 0, given |-> <<>>, outcomes |-> <<>>,
    sleeps |-> <<>>, result |-> "", errorOf |-> 0 ]

\* the call ends: it returns the provider's vector ("ok") or throws
RetryEnd(r, result) == [ r EXCEPT !.pc = "done", !.result = result ]

\* RetryLoop with one attempt fewer
RetryLoopStrict(r) ==
  IF r.attempt < r.options.maxRetries
  THEN [ r EXCEPT !.pc = "call" ]
  ELSE RetryEnd(r, ErrRetries)

\* while (attempt <= maxRetries) { try { return await fn() } ... }
\* throw new Error('Failed after retries')
RetryLoop(r) ==
  IF r.attempt <= r.options.maxRetries
  THEN [ r EXCEPT !.pc = "call" ]
  ELSE RetryEnd(r, ErrRetries)

\* generateEmbedding up to the first provider call
RetryBegin(r) ==
  IF NormalizeText(r.text) = <<>>
  THEN RetryEnd(r, ErrEmptyText)
  ELSE RetryLoop([ r EXCEPT !.given = NormalizeText(r.text), !.attempt = 0,
                            !.delay = r.options.initialDelayMs ])

\* RetryProvider that does not look at the signal
RetryProviderNoSignal(r, ok, aborted) ==
  LET called == [ r EXCEPT !.outcomes = Append(r.outcomes, ok) ]
      caught == [ called EXCEPT !.attempt = r.attempt + 1 ]
  IN IF ok THEN RetryEnd(called, "ok")
     ELSE IF caught.attempt > caught.options.maxRetries
     THEN RetryEnd([ caught EXCEPT !.errorOf = Len(called.outcomes) ], ErrProvider)
     ELSE [ caught EXCEPT !.pc = "sleep",
                          !.sleeps = Append(caught.sleeps, caught.delay) ]

\* the provider call returns or throws; after a throw the catch block runs
\* up to the call of sleep(delay).  errorOf is the provider call whose error
\* the catch block rethrows (throw error)
RetryProvider(r, ok, aborted) ==
  LET called == [ r EXCEPT !.outcomes = Append(r.outcomes, ok) ]
      caught == [ called EXCEPT !.attempt = r.attempt + 1 ]
  IN IF ok THEN RetryEnd(called, "ok")
     ELSE IF caught.attempt > caught.options.maxRetries
     THEN RetryEnd([ caught EXCEPT !.errorOf = Len(called.outcomes) ], ErrProvider)
     ELSE IF caught.options.signal /\ aborted
     THEN RetryEnd(caught, ErrAborted)
     ELSE [ caught EXCEPT !.pc = "sleep",
                          !.sleeps = Append(caught.sleeps, caught.delay) ]

\* a delay that grows by addition
NextDelayAdded(delay, backoffFactor) == delay + backoffFactor

\* delay *= backoffFactor
NextDelay(delay, backoffFactor) == delay * backoffFactor

\* the sleep ends; the loop goes round
RetryWake(r) == RetryLoop([ r EXCEPT !.delay = NextDelay(r.delay, r.options.backoffFactor) ])

(***************************************************************************)
(* MemoryStorage called directly: createMemory, updateMemory,              *)
(* updateOutgoingEdges, searchByQuery, and the adapter's updateEmbedding.  *)
(* A call is a record: its arguments, where it stands ("embed": the        *)
(* embedding service is awaited, "adapter": the adapter is awaited,        *)
(* "done"), and io, the calls it has made below MemoryStorage, in order.   *)
(***************************************************************************)
ErrNoService == "EmbeddingService is required for text query search"

\* a text query and a vector query of searchByQuery
TextQuery(text) == [ kind |-> "text", text |-> text, vector |-> NoEmbedding ]
VectorQuery(vector) == [ kind |-> "vector", text |-> <<>>, vector |-> vector ]

NoStorageCall ==
  [ op |-> "none", memoryId |-> EmptyId, memory |-> NoMemory,
    auto |-> TRUE, updates |-> NoUpdates, query |-> TextQuery(<<>>),
    text |-> <<>>, pc |-> "idle", io |-> <<>>, embedding |-> NoEmbedding,
    error |-> "", returned |-> "" ]

\* const { autoGenerateEmbedding = true } = options
AutoGenerate(options) == OrDefault(options.autoGenerateEmbedding, TRUE)

\* await this.embeddingService.generateEmbedding(text)
AwaitEmbedding(c, text) ==
  [ c EXCEPT !.pc = "embed", !.text = text,
             !.io = Append(c.io, "embeddingService.generateEmbedding") ]

\* return this.adapter.<method>(...)
AwaitAdapter(c, method) ==
  [ c EXCEPT !.pc = "adapter", !.io = Append(c.io, method) ]

\* the call throws
StorageThrows(c, error) == [ c EXCEPT !.pc = "done", !.error = error ]

\* MemoryStorage.createMemory(memory, options) up to its first await
CreateCall(memory, options, service) ==
  LET c == [ NoStorageCall EXCEPT !.op = "createMemory", !.memory = memory,
                                  !.auto = AutoGenerate(options),
                                  !.embedding = memory.embedding ]
  IN IF CreateGeneratesEmbedding(memory.embedding, AutoGenerate(options), service)
     THEN AwaitEmbedding(c, memory.content)
     ELSE AwaitAdapter(c, "adapter.createMemory")

\* MemoryStorage.updateMemory(memoryId, updates) up to its first await
UpdateCall(memoryId, updates, service) ==
  LET c == [ NoStorageCall EXCEPT !.op = "updateMemory",
                                  !.memoryId = memoryId, !.updates = updates ]
  IN IF UpdateGeneratesEmbedding(updates, service)
     THEN AwaitEmbedding(c, ValueOf(updates.content))
     ELSE AwaitAdapter(c, "adapter.updateMemory")

\* MemoryStorage.updateOutgoingEdges(memoryId, outgoingEdges)
EdgesCall(memoryId, edges) ==
  AwaitAdapter([ NoStorageCall EXCEPT
                   !.op = "updateOutgoingEdges", !.memoryId = memoryId,
                   !.updates = [ NoUpdates EXCEPT !.outgoingEdges = Given(edges) ] ],
               "adapter.updateOutgoingEdges")

\* PostgresAdapter.updateEmbedding(memoryId, embedding)
EmbeddingCall(memoryId, embedding) ==
  AwaitAdapter([ NoStorageCall EXCEPT
                   !.op = "updateEmbedding", !.memoryId = memoryId,
                   !.updates = [ NoUpdates EXCEPT !.embedding = Given(embedding) ] ],
               "adapter.updateEmbedding")

\* MemoryStorage.getMemory(memoryId)
GetCall(memoryId) ==
  AwaitAdapter([ NoStorageCall EXCEPT !.op = "getMemory", !.memoryId = memoryId ],
               "adapter.getMemory")

\* MemoryStorage.deleteMemory(memoryId)
DeleteCall(memoryId) ==
  AwaitAdapter([ NoStorageCall EXCEPT !.op = "deleteMemory",
                                      !.memoryId = memoryId ],
               "adapter.deleteMemory")

\* SearchCall without the test for the embedding service
SearchCallUnchecked(query, service) ==
  LET c == [ NoStorageCall EXCEPT !.op = "searchByQuery", !.query = query ]
  IN IF query.kind = "text"
     THEN AwaitEmbedding(c, query.text)
     ELSE AwaitAdapter([ c EXCEPT !.embedding = query.vector ],
                       "adapter.searchByVector")

\* MemoryStorage.searchByQuery(query, entityId) up to its first await
SearchCall(query, service) ==
  LET c == [ NoStorageCall EXCEPT !.op = "searchByQuery", !.query = query ]
  IN IF query.kind = "text"
     THEN IF ~service THEN StorageThrows(c, ErrNoService)
          ELSE AwaitEmbedding(c, query.text)
     ELSE AwaitAdapter([ c EXCEPT !.embedding = query.vector ],
                       "adapter.searchByVector")

\* the adapter method the call goes on with once it has its embedding
AdapterMethod(op) ==
  CASE op = "createMemory" -> "adapter.createMemory"
    [] op = "updateMemory" -> "adapter.updateMemory"
    [] op = "searchByQuery" -> "adapter.searchByVector"

\* embeddingService.generateEmbedding(text) settles: it rejects a text that
\* is empty after trimming without calling the provider; otherwise the
\* provider gives its vector for the trimmed text, or the call throws the
\* provider's error once the retries are used up
EmbeddingSettled(c, ok) ==
  IF NormalizeText(c.text) = <<>> THEN StorageThrows(c, ErrEmptyText)
  ELSE LET called == [ c EXCEPT !.io = Append(c.io, "provider") ]
           vector == ProviderEmbedding(NormalizeText(c.text))
       IN IF ~ok THEN StorageThrows(called, ErrProvider)
          ELSE AwaitAdapter([ called EXCEPT !.embedding = vector ],
                            AdapterMethod(c.op))

\* the row adapter.createMemory is handed: { ...memory, embedding }
RowToCreate(c) == [ c.memory EXCEPT !.embedding = c.embedding ]

\* the updates adapter.updateMemory is handed: updateMemory has set
\* updates.embedding to the vector it generated, if it generated one
UpdatesToWrite(c) ==
  IF c.op = "updateMemory" /\ c.embedding # NoEmbedding
  THEN [ c.updates EXCEPT !.embedding = Given(c.embedding) ]
  ELSE c.updates

\* the adapter call of a storage call settles: the table afterwards
AdapterSettledStore(c, st, id) ==
  CASE c.op = "createMemory" -> AdapterCreateMemory(st, id, RowToCreate(c))
    [] c.op \in { "updateMemory", "updateOutgoingEdges", "updateEmbedding" } ->
         IF RowExists(st, c.memoryId)
         THEN AdapterUpdateMemory(st, c.memoryId, UpdatesToWrite(c))
         ELSE st
    [] c.op = "deleteMemory" -> AdapterDeleteMemory(st, c.memoryId)
    [] c.op \in { "searchByQuery", "getMemory" } -> st

\* result.rowCount of a statement with WHERE id = $1
RowCount(st, id) == Cardinality({ x \in DOMAIN st : x = id })

\* what the adapter call of a storage call resolves with: getMemory with
\* null or the row, deleteMemory with result.rowCount > 0, the others with
\* the rows they made, changed or found
AdapterReturns(c, st) ==
  CASE c.op = "getMemory" ->
         IF RowCount(st, c.memoryId) = 0 THEN "null" ELSE "memory"
    [] c.op = "deleteMemory" ->
         IF RowCount(st, c.memoryId) > 0 THEN "true" ELSE "false"
    [] c.op = "searchByQuery" -> "memories"
    [] OTHER -> "memory"

\* AdapterSettledCall with an updateMemory that returns rows[0] unchecked
AdapterSettledUnchecked(c, st) ==
  [ c EXCEPT !.pc = "done", !.returned = AdapterReturns(c, st) ]

\* the adapter call of a storage call settles: the call afterwards
AdapterSettledCall(c, st) ==
  IF /\ c.op \in { "updateMemory", "updateOutgoingEdges", "updateEmbedding" }
     /\ ~RowExists(st, c.memoryId)
  THEN StorageThrows(c, ErrAdapterNotFound)
  ELSE [ c EXCEPT !.pc = "done", !.returned = AdapterReturns(c, st) ]

(***************************************************************************)
(* MemoryConnector.                                                        *)
(***************************************************************************)
\* the defaults of the constructor (the similarity threshold in hundredths)
DefaultChainDepth == 10
DefaultMaxMemoryCount == 50
DefaultSimilarityThreshold == 70

\* a || b on numbers: b when a is 0
OrElse(a, b) == IF a = 0 THEN b ELSE a

\* this.config = { chainDepth: 10, mode: 'read-write', maxMemoryCount: 50,
\*                 similarityThreshold: 0.7, autoGenerate: true, ...config }
ConnectorConfig(config) ==
  [ chainDepth |-> OrDefault(config.chainDepth, DefaultChainDepth),
    mode |-> OrDefault(config.mode, "read-write"),
    maxMemoryCount |-> OrDefault(config.maxMemoryCount, DefaultMaxMemoryCount),
    similarityThreshold |->
      OrDefault(config.similarityThreshold, DefaultSimilarityThreshold),
    autoGenerate |-> OrDefault(config.autoGenerate, TRUE) ]

\* what connect() can be given: a callback function, a ChattingManager with
\* some of its optional methods, a LangChain chain, or something else
Target(id, kind, methods) == [ id |-> id, kind |-> kind, methods |-> methods ]
NoTarget == Target(0, "undefined", {})

\* createLangChainAdapter(chain, connector): a ChattingManager with
\* prepareContext and onAfterResponse, both calling the connector back
LangChainAdapter(chain) ==
  Target(chain.id, "adapter", { "prepareContext", "onAfterResponse" })

\* no call of the connector is in progress
NoConnectorCall ==
  [ op |-> "none", pc |-> "idle", depth |-> 0, invoked |-> {},
    limit |-> 0, threshold |-> 0, chainDepth |-> 0, vector |-> <<>>,
    memories |-> <<>>, error |-> "" ]

\* new MemoryConnector(storage, config)
NewConnector(config) ==
  [ config |-> ConnectorConfig(config), contextChangeCallback |-> NoTarget,
    chattingManager |-> NoTarget, isConnected |-> FALSE, connectedTo |-> 0,
    call |-> NoConnectorCall ]

NoConfig ==
  [ chainDepth |-> Absent, mode |-> Absent, maxMemoryCount |-> Absent,
    similarityThreshold |-> Absent, autoGenerate |-> Absent ]

NoConnector == NewConnector(NoConfig)

\* the lists the vector search can return: rows of the entity that have an
\* embedding, no row twice, in the order of their distance to the query, at
\* most limit of them (which rows pass the threshold and in which order is
\* a matter of the embeddings)
SearchByVector(st, entityId, limit) ==
  LET rows == { x \in DOMAIN st : st[x].entityId = entityId
                                   /\ st[x].embedding # NoEmbedding }
  IN { v \in UNION { [ 1..n -> rows ] : n \in 0..Cardinality(rows) } :
         /\ Len(v) <= limit
         /\ \A a, b \in 1..Len(v) : a # b => v[a] # v[b] }

\* allMemories.push(m) for the rows of a list that are not visited yet
RECURSIVE PushUnvisited(_, _)
PushUnvisited(all, ids) ==
  IF ids = <<>> THEN all
  ELSE PushUnvisited(IF Includes(all, Head(ids)) THEN all
                     ELSE Append(all, Head(ids)),
                     Tail(ids))

\* the for loop of getContext over the vector memories: each, unless
\* visited, is pushed and then its connected memories are
RECURSIVE ContextLoop(_, _, _, _)
ContextLoop(st, all, vector, depth) ==
  IF vector = <<>> THEN all
  ELSE LET id == Head(vector)
           connected == GetConnectedMemories(st, id, depth)
       IN ContextLoop(st,
                      IF Includes(all, id) THEN all
                      ELSE PushUnvisited(Append(all, id),
                                         [ k \in 1..Len(connected) |->
                                             connected[k].id ]),
                      Tail(vector), depth)

\* array.slice(0, n)
Slice(seq, n) == SubSeq(seq, 1, IF n < Len(seq) THEN n ELSE Len(seq))

\* getContext: the arguments of the vector search
ContextSearch(c) ==
  [ c EXCEPT !.call = [ NoConnectorCall EXCEPT
       !.op = "getContext", !.pc = "search", !.invoked = c.call.invoked,
       !.depth = c.call.depth,
       !.limit = OrElse(c.config.maxMemoryCount, DefaultMaxMemoryCount),
       !.threshold = OrElse(c.config.similarityThreshold,
                            DefaultSimilarityThreshold) ] ]

\* getContext: the search throws
ContextThrows(c, error) ==
  [ c EXCEPT !.call.pc = "idle", !.call.error = error ]

\* getContext after the vector search has returned the list vector
ContextReturns(c, st, vector) ==
  LET depth == OrElse(c.config.chainDepth, DefaultChainDepth)
      all == ContextLoop(st, <<>>, vector, depth)
  IN [ c EXCEPT !.call.pc = "idle", !.call.vector = vector,
                !.call.chainDepth = depth,
                !.call.memories =
                  Slice(all, OrElse(c.config.maxMemoryCount,
                                    DefaultMaxMemoryCount)) ]

\* the optional methods of a ChattingManager
Methods == { "onContextChange", "prepareContext", "onAfterResponse" }

ErrConnected == "Memory Connector is already connected"
ErrTarget == "Invalid connection target"
ErrStack == "Maximum call stack size exceeded"

\* a call of the connector begins
ConnectorCall(c, op) == [ c EXCEPT !.call = [ NoConnectorCall EXCEPT !.op = op ] ]

\* connect(managerOrCallback)
Connect(c, target) ==
  LET d == ConnectorCall(c, "connect")
  IN IF c.isConnected THEN [ d EXCEPT !.call.error = ErrConnected ]
     ELSE IF target.kind = "function"
     THEN [ d EXCEPT !.contextChangeCallback = target, !.isConnected = TRUE,
                     !.connectedTo = target.id ]
     ELSE IF target.kind = "chain"
     THEN [ d EXCEPT !.chattingManager = LangChainAdapter(target),
                     !.isConnected = TRUE, !.connectedTo = target.id ]
     ELSE IF target.kind = "object"
     THEN [ d EXCEPT !.chattingManager = target, !.isConnected = TRUE,
                     !.connectedTo = target.id ]
     ELSE [ d EXCEPT !.call.error = ErrTarget ]

\* disconnect()
Disconnect(c) ==
  [ ConnectorCall(c, "disconnect") EXCEPT
      !.contextChangeCallback = NoTarget, !.isConnected = FALSE,
      !.connectedTo = 0 ]

\* the connector calls a method of a target
Invokes(c, target, method) ==
  [ c EXCEPT !.call.invoked = @ \cup { << target.id, method >> } ]

\* handleContextChange(context)
HandleContextChange(c) ==
  LET d == ConnectorCall(c, "handleContextChange")
  IN IF ~c.isConnected \/ ~c.config.autoGenerate THEN d
     ELSE LET e == IF c.contextChangeCallback # NoTarget
                   THEN Invokes(d, c.contextChangeCallback, "callback")
                   ELSE d
          IN IF "onContextChange" \in c.chattingManager.methods
             THEN Invokes(e, c.chattingManager, "onContextChange")
             ELSE e

\* prepareContext(conversationContext) up to the vector search of
\* getContext, unless a manager of the caller's answers
PrepareContext(c) ==
  LET d == ConnectorCall(c, "prepareContext")
  IN IF "prepareContext" \in c.chattingManager.methods
     THEN LET e == Invokes(d, c.chattingManager, "prepareContext")
          IN IF c.chattingManager.kind = "adapter"
             THEN [ ContextSearch(e) EXCEPT !.call.op = "prepareContext" ]
             ELSE e
     ELSE [ ContextSearch(d) EXCEPT !.call.op = "prepareContext" ]

\* the body of handleAfterResponse, up to its return or, with the adapter
\* of a LangChain chain, up to the adapter's onAfterResponse
AfterResponse(c) ==
  IF ~c.isConnected \/ ~c.config.autoGenerate
  THEN [ c EXCEPT !.call.pc = "idle" ]
  ELSE IF "onAfterResponse" \in c.chattingManager.methods
  THEN [ Invokes(c, c.chattingManager, "onAfterResponse") EXCEPT
           !.call.pc = IF c.chattingManager.kind = "adapter" THEN "adapter"
                       ELSE "idle" ]
  ELSE [ c EXCEPT !.call.pc = "idle" ]

\* `Cannot ${verb} memory in read-only mode`
ErrReadOnly(verb) == << "Cannot", verb, "memory in read-only mode" >>

\* ReadOnly that compares with a mode no configuration has
ReadOnlyMisspelt(c) == c.config.mode = "readonly"

\* this.config.mode === 'read-only'
ReadOnly(c) == c.config.mode = "read-only"

\* a mutating method of the connector throws
ConnectorThrows(c, op, error) ==
  [ ConnectorCall(c, op) EXCEPT !.call.error = error ]

\* the table after connector.createMemory(content, { relatedMemoryIds }):
\* storage.createMemory of a row without edges, then, with related ids,
\* storage.updateOutgoingEdges(memory.id, [...memory.outgoingEdges, ...related])
ConnectorCreated(st, id, entityId, content, embedding, related) ==
  LET made == AdapterCreateMemory(st, id, Memory(entityId, content, embedding, <<>>))
  IN IF Len(related) > 0 THEN AdapterUpdateOutgoingEdges(made, id, related)
     ELSE made

(***************************************************************************)
(* State.                                                                  *)
(***************************************************************************)
VARIABLES
  store,             \* the memories table: id -> row
  nextId,            \* the next id the table hands out
  embeddingService,  \* MemoryStorage.embeddingService is configured
  created,           \* history: the entityId each row was created with
  trav,              \* a traversal: its arguments, its progress, its results
  retry,             \* a call of EmbeddingService.generateEmbedding
  aborted,           \* options.signal.aborted
  storageCall,       \* a direct call of MemoryStorage
  running,           \* the handler calls in progress, when calls interleave
  connector          \* a MemoryConnector: its fields and its call in progress

handlerVars == << store, nextId, embeddingService, created >>

retryVars == << retry, aborted >>

callVars == << storageCall, running, connector >>

vars ==
  << store, nextId, embeddingService, created, trav, retry, aborted,
     storageCall, running, connector >>

\* the ways a call with these parameters can run on the current table, from
\* its start to its return
Calls(params) == Run(Machine(store, nextId, created, embeddingService, params))

\* a handler call that runs from its start to its return
Handle(params) ==
  \E m \in Calls(params) :
    /\ store' = m.store
    /\ nextId' = m.nextId
    /\ created' = m.created
    /\ UNCHANGED << embeddingService, trav, retryVars, callVars >>

HandleCreateMemory(content, entityId, related) ==
  Handle(Params("create", content, entityId, related, EmptyId, EmptyId, ""))

HandleUpdateMemory(memoryId, content) ==
  Handle(Params("update", content, <<>>, <<>>, memoryId, EmptyId, ""))

HandleUpdateMemoryLink(fromId, toId, action) ==
  Handle(Params("link", <<>>, <<>>, <<>>, fromId, toId, action))

HandleDeleteMemory(memoryId) ==
  Handle(Params("delete", <<>>, <<>>, <<>>, memoryId, EmptyId, ""))

(***************************************************************************)
(* The tool-handler specification: calls one at a time.                    *)
(***************************************************************************)
\* the relatedMemoryIds lists a caller gives: any ids, repeats included
RECURSIVE SeqsUpTo(_, _)
SeqsUpTo(S, n) ==
  IF n = 0 THEN { <<>> }
  ELSE LET shorter == SeqsUpTo(S, n - 1)
       IN shorter \cup { Append(s, x) : s \in shorter, x \in S }

RelatedInputs == SeqsUpTo(Ids, MaxRelated)

\* memory ids a caller gives: any id, the empty string included
IdInputs == Ids \cup { EmptyId }

\* no traversal
NoTrav ==
  [ pc |-> "none", starts |-> {}, depth |-> 0, bfs |-> BfsStart(EmptyId),
    single |-> <<>>, multiple |-> <<>> ]

\* a slot for a handler call, with no call in it; the table of a call in
\* progress is the shared one, the slot keeps the call's own locals
IdleMachine ==
  Return(Machine(EmptyStore, 0, EmptyStore, FALSE, NoParams), FALSE, "", EmptyId)

\* the callers that can have a handler call in progress at the same time
Procs == 1..NumProcs

\* no handler call in progress; started counts the calls begun
NoRunning == [ calls |-> [ p \in Procs |-> IdleMachine ], started |-> 0 ]

\* no call of the embedding service
NoRetry ==
  RetryEnd(RetryCall([ maxRetries |-> Absent, initialDelayMs |-> Absent,
                       backoffFactor |-> Absent, signal |-> FALSE ], <<>>), "")

Init ==
  /\ store = EmptyStore
  /\ nextId = 1
  /\ embeddingService \in BOOLEAN
  /\ created = EmptyStore
  /\ trav = NoTrav
  /\ retry = NoRetry
  /\ aborted = FALSE
  /\ storageCall = NoStorageCall
  /\ connector = NoConnector
  /\ running = NoRunning

Next ==
  \/ \E content \in ContentInputs, entityId \in EntityInputs,
        related \in RelatedInputs : HandleCreateMemory(content, entityId, related)
  \/ \E memoryId \in IdInputs, content \in ContentInputs :
        HandleUpdateMemory(memoryId, content)
  \/ \E fromId \in IdInputs, toId \in IdInputs, action \in Actions :
        HandleUpdateMemoryLink(fromId, toId, action)
  \/ \E memoryId \in IdInputs : HandleDeleteMemory(memoryId)

Spec == Init /\ [][Next]_vars

(***************************************************************************)
(* The traversal specification: the three traversals on one graph.         *)
(***************************************************************************)
\* the outgoingEdges lists of the graphs: any ids (missing rows, the row
\* itself and repeats included)
EdgeInputs == SeqsUpTo(Ids, MaxOut)

\* the tables the traversals run on
GraphInputs ==
  UNION { [ rows -> { Memory(<< "p" >>, << "a" >>, NoEmbedding, edges) :
                        edges \in EdgeInputs } ] : rows \in SUBSET Ids }

\* the depths asked for
DepthInputs == (0..MaxDepth) \cup { DeepDepth }

\* the start of a single-source traversal
StartOf(t) == CHOOSE x \in t.starts : TRUE

InitTrav ==
  /\ store \in GraphInputs
  /\ nextId = MaxIds + 1
  /\ embeddingService = FALSE
  /\ created = [ x \in DOMAIN store |-> store[x].entityId ]
  /\ \E starts \in SUBSET Ids, depth \in DepthInputs :
       trav = [ pc |-> IF Cardinality(starts) = 1 THEN "bfs" ELSE "multiple",
                starts |-> starts, depth |-> depth,
                bfs |-> IF Cardinality(starts) = 1
                        THEN BfsStart(CHOOSE x \in starts : TRUE)
                        ELSE BfsStart(EmptyId),
                single |-> <<>>, multiple |-> <<>> ]
  /\ retry = NoRetry
  /\ aborted = FALSE
  /\ storageCall = NoStorageCall
  /\ connector = NoConnector
  /\ running = NoRunning

\* PostgresAdapter.getConnectedMemories: one round of its loop; it returns
\* after the round that empties the queue
BfsRound ==
  /\ trav.pc = "bfs"
  /\ trav.bfs.queue # <<>>
  /\ LET b == BfsIteration(store, trav.bfs, trav.depth)
     IN trav' = [ trav EXCEPT !.bfs = b,
                              !.pc = IF b.queue = <<>> THEN "single" ELSE "bfs" ]
  /\ UNCHANGED << handlerVars, retryVars, callVars >>

\* SELECT * FROM get_connected_memories(start, depth)
SqlSingle ==
  /\ trav.pc = "single"
  /\ trav' = [ trav EXCEPT
                 !.single = SqlGetConnectedMemories(store, StartOf(trav), trav.depth),
                 !.pc = "multiple" ]
  /\ UNCHANGED << handlerVars, retryVars, callVars >>

\* SELECT * FROM get_connected_memories_from_multiple(starts, depth)
SqlMultiple ==
  /\ trav.pc = "multiple"
  /\ trav' = [ trav EXCEPT
                 !.multiple = SqlGetConnectedMemoriesFromMultiple(
                                store, trav.starts, trav.depth),
                 !.pc = "end" ]
  /\ UNCHANGED << handlerVars, retryVars, callVars >>

NextTrav == BfsRound \/ SqlSingle \/ SqlMultiple

SpecTrav == InitTrav /\ [][NextTrav]_vars

\* the loop of getConnectedMemories is not suspended for ever
SpecTravFair == SpecTrav /\ WF_vars(BfsRound)

(***************************************************************************)
(* The retry specification: one call of generateEmbedding against a        *)
(* provider that fails or succeeds at each call, with a signal that can be *)
(* aborted at any moment.                                                  *)
(***************************************************************************)
\* the maxRetries a caller configures
MaxRetriesInputs == (-1)..MaxRetriesGiven

\* the initialDelayMs and backoffFactor a caller configures
DelayInputs == { 0, 100 }
FactorInputs == { 1, 3 }

OptionInputs ==
  [ maxRetries : { Absent } \cup { Given(n) : n \in MaxRetriesInputs },
    initialDelayMs : { Absent } \cup { Given(n) : n \in DelayInputs },
    backoffFactor : { Absent } \cup { Given(n) : n \in FactorInputs },
    signal : BOOLEAN ]

InitRetry ==
  /\ store = EmptyStore
  /\ nextId = 1
  /\ embeddingService = TRUE
  /\ created = EmptyStore
  /\ trav = NoTrav
  /\ \E options \in OptionInputs, text \in ContentInputs :
       retry = RetryCall(options, text)
  /\ aborted = FALSE
  /\ storageCall = NoStorageCall
  /\ connector = NoConnector
  /\ running = NoRunning

\* generateEmbedding: normalizeText, then withRetry up to the provider call
GenerateEmbeddingBegins ==
  /\ retry.pc = "start"
  /\ retry' = RetryBegin(retry)
  /\ UNCHANGED << handlerVars, trav, aborted, callVars >>

\* the provider's embed() returns a vector or throws
ProviderSettles(ok) ==
  /\ retry.pc = "call"
  /\ retry' = RetryProvider(retry, ok, aborted)
  /\ UNCHANGED << handlerVars, trav, aborted, callVars >>

\* the timer of sleep() fires
SleepEnds ==
  /\ retry.pc = "sleep"
  /\ retry' = RetryWake(retry)
  /\ UNCHANGED << handlerVars, trav, aborted, callVars >>

\* the owner of the AbortSignal aborts it
Abort ==
  /\ retry.options.signal
  /\ retry.pc # "done"
  /\ ~aborted
  /\ aborted' = TRUE
  /\ UNCHANGED << handlerVars, trav, retry, callVars >>

NextRetry ==
  \/ GenerateEmbeddingBegins
  \/ \E ok \in BOOLEAN : ProviderSettles(ok)
  \/ SleepEnds
  \/ Abort

SpecRetry == InitRetry /\ [][NextRetry]_vars

(***************************************************************************)
(* The storage specification: direct calls of MemoryStorage (and of the    *)
(* adapter's updateEmbedding), one call at a time.                         *)
(***************************************************************************)
\* the memories a caller creates: with or without an embedding of its own
MemoryInputs ==
  { Memory(entityId, content, embedding, edges) :
      entityId \in { << "p" >> },
      content \in { << "a" >>, << " " >> },
      embedding \in { NoEmbedding, << "v" >> },
      edges \in { <<>> } }

\* CreateMemoryOptions
CreateOptionInputs ==
  [ autoGenerateEmbedding : { Absent, Given(TRUE), Given(FALSE) } ]

\* the update records a caller gives: any of content (the empty string
\* included), embedding, outgoingEdges and entityId
UpdateInputs ==
  [ content : { Absent, Given(<<>>), Given(<< " ", "b" >>) },
    embedding : { Absent, Given(<< "w" >>) },
    outgoingEdges : { Absent },
    entityId : { Absent, Given(<< "q" >>) } ]

\* the queries of searchByQuery
QueryInputs ==
  { TextQuery(text) : text \in { <<>>, << "a" >> } } \cup { VectorQuery(<< "v" >>) }

InitStorage ==
  /\ store = EmptyStore
  /\ nextId = 1
  /\ embeddingService \in BOOLEAN
  /\ created = EmptyStore
  /\ trav = NoTrav
  /\ retry = NoRetry
  /\ aborted = FALSE
  /\ storageCall = NoStorageCall
  /\ connector = NoConnector
  /\ running = NoRunning

\* no storage call is in progress
StorageIdle == storageCall.pc \in { "idle", "done" }

StorageBegins(c) ==
  /\ StorageIdle
  /\ storageCall' = c
  /\ UNCHANGED << handlerVars, trav, retryVars, running, connector >>

StorageCreateMemory(memory, options) ==
  /\ nextId <= MaxStored
  /\ StorageBegins(CreateCall(memory, options, embeddingService))

StorageUpdateMemory(memoryId, updates) ==
  StorageBegins(UpdateCall(memoryId, updates, embeddingService))

StorageUpdateOutgoingEdges(memoryId, edges) ==
  StorageBegins(EdgesCall(memoryId, edges))

AdapterUpdateEmbedding(memoryId, embedding) ==
  StorageBegins(EmbeddingCall(memoryId, embedding))

StorageSearchByQuery(query) ==
  StorageBegins(SearchCall(query, embeddingService))

StorageGetMemory(memoryId) == StorageBegins(GetCall(memoryId))

StorageDeleteMemory(memoryId) == StorageBegins(DeleteCall(memoryId))

\* the awaited embeddingService.generateEmbedding settles
StorageEmbeddingSettles(ok) ==
  /\ storageCall.pc = "embed"
  /\ storageCall' = EmbeddingSettled(storageCall, ok)
  /\ UNCHANGED << handlerVars, trav, retryVars, running, connector >>

\* the awaited adapter call settles
StorageAdapterSettles ==
  /\ storageCall.pc = "adapter"
  /\ store' = AdapterSettledStore(storageCall, store, nextId)
  /\ storageCall' = AdapterSettledCall(storageCall, store)
  /\ nextId' = IF storageCall.op = "createMemory" THEN nextId + 1 ELSE nextId
  /\ created' = IF storageCall.op = "createMemory"
                THEN [ x \in (DOMAIN created) \cup {nextId} |->
                         IF x = nextId THEN storageCall.memory.entityId
                         ELSE created[x] ]
                ELSE IF storageCall.op = "deleteMemory"
                THEN [ x \in (DOMAIN created) \ { storageCall.memoryId } |->
                         created[x] ]
                ELSE created
  /\ UNCHANGED << embeddingService, trav, retryVars, running, connector >>

NextStorage ==
  \/ \E memory \in MemoryInputs, options \in CreateOptionInputs :
       StorageCreateMemory(memory, options)
  \/ \E memoryId \in 1..MaxStored, updates \in UpdateInputs :
       StorageUpdateMemory(memoryId, updates)
  \/ \E memoryId \in 1..MaxStored, edges \in { << 2 >> } :
       StorageUpdateOutgoingEdges(memoryId, edges)
  \/ \E memoryId \in 1..MaxStored :
       AdapterUpdateEmbedding(memoryId, << "w" >>)
  \/ \E query \in QueryInputs : StorageSearchByQuery(query)
  \/ \E memoryId \in 1..MaxStored : StorageGetMemory(memoryId)
  \/ \E memoryId \in 1..MaxStored : StorageDeleteMemory(memoryId)
  \/ \E ok \in BOOLEAN : StorageEmbeddingSettles(ok)
  \/ StorageAdapterSettles

SpecStorage == InitStorage /\ [][NextStorage]_vars

(***************************************************************************)
(* The interleaved specification: up to NumProcs handler calls in progress *)
(* at the same time, each going on by one awaited call at a time.  A call  *)
(* runs from its start to its first await without a break.                 *)
(***************************************************************************)
\* the locals of a call, kept in its slot between its steps
\* (its own copy of the parameters it was called with; after its return
\* nothing of a call is left but the handler called, its result and, of a
\* call of handleUpdateMemoryLink, the ids and the action it was called with)
Blank(m) ==
  IF m.pc = "done"
    THEN Return(Machine(EmptyStore, 0, EmptyStore, FALSE,
                        IF m.params.op = "link"
                          THEN LinkParams(m.params.memoryId,
                                          m.params.toMemoryId, m.params.action)
                          ELSE Params(m.params.op, <<>>, <<>>, <<>>, EmptyId,
                                      EmptyId, "")),
                m.success, m.error, m.data)
    ELSE [ m EXCEPT !.store = EmptyStore, !.nextId = 0,
                    !.created = EmptyStore,
                    !.params = Params(m.params.op, m.params.content,
                                      m.params.entityId,
                                      m.params.relatedMemoryIds,
                                      m.params.memoryId, m.params.toMemoryId,
                                      m.params.action) ]

\* the call of a slot, on the table as it is now
Load(m) == [ m EXCEPT !.store = store, !.nextId = nextId, !.created = created ]

\* slot p has no call in progress
Free(p) == running.calls[p].pc = "done"

\* a call begins in slot p, the first slot that is free, and runs to its first
\* await (or to its return)
Begin(p, params) ==
  /\ Free(p)
  /\ \A r \in Procs : r < p => ~Free(r)
  /\ running.started < MaxCalls
  /\ \E n \in Step(Machine(store, nextId, created, embeddingService, params)) :
       running' = [ calls |-> [ running.calls EXCEPT ![p] = Blank(n) ],
                    started |-> running.started + 1 ]
  /\ UNCHANGED << handlerVars, trav, retryVars, storageCall, connector >>

BeginCreateMemory(p, entityId, related) ==
  Begin(p, CreateParams(<< "a" >>, entityId, related))

BeginUpdateMemory(p, memoryId) ==
  Begin(p, UpdateParams(memoryId, << "b" >>))

BeginUpdateMemoryLink(p, fromId, toId, action) ==
  Begin(p, LinkParams(fromId, toId, action))

BeginDeleteMemory(p, memoryId) == Begin(p, DeleteParams(memoryId))

\* the awaited call of the call in slot p settles, and the call runs to its
\* next await (or to its return)
Proceed(p) ==
  /\ ~Free(p)
  /\ \E n \in Step(Load(running.calls[p])) :
       /\ store' = n.store
       /\ nextId' = n.nextId
       /\ created' = n.created
       /\ running' = [ running EXCEPT !.calls[p] = Blank(n) ]
  /\ UNCHANGED << embeddingService, trav, retryVars, storageCall, connector >>

\* the tables that n successful calls of handleCreateMemory, one after the
\* other, make of the empty table: n memories of one entity, no edges
RECURSIVE TablesAfterCreates(_, _)
TablesAfterCreates(n, service) ==
  IF n = 0 THEN { Machine(EmptyStore, 1, EmptyStore, service, NoParams) }
  ELSE { m \in UNION { Run(Machine(t.store, t.nextId, t.created, service,
                                   CreateParams(<< "a" >>, << "p" >>, <<>>))) :
                         t \in TablesAfterCreates(n - 1, service) } :
           m.success }

\* the interleaved calls start on the empty table, with MaxCalls calls to
\* come, or on a table of MaxIds memories, with MaxRacing calls to come
InitInterleaved ==
  /\ embeddingService \in BOOLEAN
  /\ \E n \in { 0, MaxIds } :
       \E m \in TablesAfterCreates(n, embeddingService) :
         /\ store = m.store
         /\ nextId = m.nextId
         /\ created = m.created
         /\ running = [ NoRunning EXCEPT
                          !.started = IF n = 0 THEN 0
                                      ELSE MaxCalls - MaxRacing ]
  /\ trav = NoTrav
  /\ retry = NoRetry
  /\ aborted = FALSE
  /\ storageCall = NoStorageCall
  /\ connector = NoConnector

NextInterleaved ==
  \/ \E p \in Procs, entityId \in { << "p" >>, << "q" >> },
        related \in RelatedInputs : BeginCreateMemory(p, entityId, related)
  \/ \E p \in Procs, memoryId \in Ids : BeginUpdateMemory(p, memoryId)
  \/ \E p \in Procs, fromId \in Ids, toId \in Ids, action \in Actions :
       BeginUpdateMemoryLink(p, fromId, toId, action)
  \/ \E p \in Procs, memoryId \in Ids : BeginDeleteMemory(p, memoryId)
  \/ \E p \in Procs : Proceed(p)

SpecInterleaved == InitInterleaved /\ [][NextInterleaved]_vars

(***************************************************************************)
(* MemoryConnector.getContext on a table of memories.                      *)
(***************************************************************************)
\* the largest maxMemoryCount given in a configuration
MaxCount == 2

\* the tables: every id stored, of one of two entities, with or without an
\* embedding, with at most one outgoing edge
ContextStores ==
  [ Ids -> { Memory(entityId, << "a" >>, embedding, edges) :
               entityId \in { << "p" >>, << "q" >> },
               embedding \in { NoEmbedding, ProviderEmbedding(<< "a" >>) },
               edges \in SeqsUpTo(Ids, 1) } ]

\* the configurations given to the constructor
ContextConfigs ==
  { [ NoConfig EXCEPT !.maxMemoryCount = count, !.chainDepth = depth,
                      !.similarityThreshold = threshold ] :
      count \in { Absent } \cup { Given(n) : n \in 0..MaxCount },
      depth \in { Absent, Given(0), Given(1) },
      threshold \in { Absent, Given(0) } }

InitContext ==
  /\ store \in ContextStores
  /\ nextId = MaxIds + 1
  /\ embeddingService \in BOOLEAN
  /\ created = [ x \in DOMAIN store |-> store[x].entityId ]
  /\ trav = NoTrav
  /\ retry = NoRetry
  /\ aborted = FALSE
  /\ storageCall = NoStorageCall
  /\ running = NoRunning
  /\ connector \in { NewConnector(config) : config \in ContextConfigs }

\* connector.getContext(context, entityId) with a text as context: the
\* search by query throws without an embedding service
GetContext(entityId) ==
  /\ connector.call.pc = "idle"
  /\ LET c == ContextSearch(connector)
     IN IF ~embeddingService
        THEN connector' = ContextThrows(c, ErrNoService)
        ELSE \E vector \in SearchByVector(store, entityId, c.call.limit) :
               connector' = ContextReturns(c, store, vector)
  /\ UNCHANGED << handlerVars, trav, retryVars, storageCall, running >>

NextContext == GetContext(<< "p" >>)

SpecContext == InitContext /\ [][NextContext]_vars

(***************************************************************************)
(* MemoryGenerator.collectAugmentation on a table of memories.  The call   *)
(* is kept in trav: its options, where it stands ("search": searchByQuery  *)
(* is awaited, "traverse": getConnectedMemoriesFromMultiple is awaited),   *)
(* what the two storage calls returned and the two lists it returns.       *)
(***************************************************************************)
\* const { maxDepth = 2, limit = 50 } = options
DefaultAugmentationDepth == 2
DefaultAugmentationLimit == 50

\* a call of collectAugmentation(query, entityId, options), not started
Augmentation(options) ==
  [ pc |-> "search",
    maxDepth |-> OrDefault(options.maxDepth, DefaultAugmentationDepth),
    limit |-> OrDefault(options.limit, DefaultAugmentationLimit),
    vector |-> <<>>, connected |-> <<>>, traversed |-> FALSE,
    vectorMemories |-> <<>>, graphMemories |-> <<>>, error |-> "" ]

\* allConnected.filter(m => !visitedIds.has(m.id))
RECURSIVE FilterVisited(_, _)
FilterVisited(connected, visitedIds) ==
  IF connected = <<>> THEN <<>>
  ELSE IF Head(connected) \in visitedIds
  THEN FilterVisited(Tail(connected), visitedIds)
  ELSE << Head(connected) >> \o FilterVisited(Tail(connected), visitedIds)

\* AugmentationReturns with the graph memories cut at limit
AugmentationReturnsBoth(a, graphMemories) ==
  [ a EXCEPT !.pc = "done",
             !.vectorMemories = Slice(a.vector, a.limit),
             !.graphMemories = Slice(graphMemories, a.limit) ]

\* vectorMemories.slice(0, limit) and
\* graphMemories.slice(0, Math.max(0, limit - limitedVectorMemories.length))
AugmentationReturns(a, graphMemories) ==
  LET limitedVectorMemories == Slice(a.vector, a.limit)
      rest == a.limit - Len(limitedVectorMemories)
  IN [ a EXCEPT !.pc = "done",
                !.vectorMemories = limitedVectorMemories,
                !.graphMemories = Slice(graphMemories,
                                        IF rest > 0 THEN rest ELSE 0) ]

\* searchByQuery has returned the ids of vectorMemories: with none, the call
\* returns; else it calls getConnectedMemoriesFromMultiple
AugmentationSearched(a, vector) ==
  IF Len(vector) > 0
  THEN [ a EXCEPT !.pc = "traverse", !.vector = vector ]
  ELSE AugmentationReturns([ a EXCEPT !.vector = vector ], <<>>)

\* getConnectedMemoriesFromMultiple(vectorMemoryIds, maxDepth) has returned
AugmentationTraversed(a, st) ==
  LET rows == SqlGetConnectedMemoriesFromMultiple(st, Range(a.vector), a.maxDepth)
      allConnected == [ k \in 1..Len(rows) |-> rows[k].id ]
  IN AugmentationReturns(
       [ a EXCEPT !.connected = allConnected, !.traversed = TRUE ],
       FilterVisited(allConnected, Range(a.vector)))

\* the options given to collectAugmentation
AugmentationOptions ==
  [ maxDepth : { Absent, Given(0), Given(1) },
    limit : { Absent } \cup { Given(n) : n \in 0..MaxCount } ]

InitAugmentation ==
  /\ store \in ContextStores
  /\ nextId = MaxIds + 1
  /\ embeddingService \in BOOLEAN
  /\ created = [ x \in DOMAIN store |-> store[x].entityId ]
  /\ trav \in { Augmentation(options) : options \in AugmentationOptions }
  /\ retry = NoRetry
  /\ aborted = FALSE
  /\ storageCall = NoStorageCall
  /\ running = NoRunning
  /\ connector = NoConnector

\* storage.searchByQuery(query, entityId, limit, 0.5) settles: it throws
\* without an embedding service
AugmentationSearchSettles(entityId) ==
  /\ trav.pc = "search"
  /\ IF ~embeddingService
     THEN trav' = [ trav EXCEPT !.pc = "done", !.error = ErrNoService ]
     ELSE \E vector \in SearchByVector(store, entityId, trav.limit) :
            trav' = AugmentationSearched(trav, vector)
  /\ UNCHANGED << handlerVars, retryVars, callVars >>

\* storage.getConnectedMemoriesFromMultiple settles
AugmentationTraversalSettles ==
  /\ trav.pc = "traverse"
  /\ trav' = AugmentationTraversed(trav, store)
  /\ UNCHANGED << handlerVars, retryVars, callVars >>

NextAugmentation ==
  \/ AugmentationSearchSettles(<< "p" >>)
  \/ AugmentationTraversalSettles

SpecAugmentation == InitAugmentation /\ [][NextAugmentation]_vars

(***************************************************************************)
(* The connector specification: connect, disconnect and the calls a        *)
(* chatting manager makes, one call at a time.                             *)
(***************************************************************************)
\* the calls of handleAfterResponse nested in one another that are followed
MaxReentry == 3

\* what callers connect: a callback, two chatting managers with any of the
\* optional methods, a LangChain chain, and a value that is none of these
TargetInputs ==
  { Target(1, "function", {}), Target(4, "chain", {}), Target(5, "other", {}) }
  \cup { Target(id, "object", methods) : id \in { 2, 3 }, methods \in SUBSET Methods }

\* the modes a configuration gives
ModeInputs == { Absent, Given("read-only"), Given("read-write") }

InitConnector ==
  /\ \E m \in TablesAfterCreates(0, FALSE) \cup TablesAfterCreates(1, FALSE) :
       /\ store = m.store
       /\ nextId = m.nextId
       /\ created = m.created
  /\ embeddingService \in BOOLEAN
  /\ trav = NoTrav
  /\ retry = NoRetry
  /\ aborted = FALSE
  /\ storageCall = NoStorageCall
  /\ running = NoRunning
  /\ \E auto \in { Absent, Given(TRUE), Given(FALSE) }, mode \in ModeInputs :
       connector = NewConnector([ NoConfig EXCEPT !.autoGenerate = auto,
                                                  !.mode = mode ])

ConnectorIdle == connector.call.pc = "idle"

ConnectorStep(c) ==
  /\ connector' = c
  /\ UNCHANGED << handlerVars, trav, retryVars, storageCall, running >>

ConnectorConnect(target) ==
  /\ ConnectorIdle
  /\ ConnectorStep(Connect(connector,
                           Target(target.id, target.kind, target.methods)))

ConnectorDisconnect ==
  ConnectorIdle /\ ConnectorStep(Disconnect(connector))

ConnectorHandleContextChange ==
  ConnectorIdle /\ ConnectorStep(HandleContextChange(connector))

ConnectorPrepareContext ==
  ConnectorIdle /\ ConnectorStep(PrepareContext(connector))

\* the vector search of a getContext begun by prepareContext settles
ConnectorSearchSettles ==
  /\ connector.call.pc = "search"
  /\ IF ~embeddingService
     THEN ConnectorStep(ContextThrows(connector, ErrNoService))
     ELSE \E vector \in SearchByVector(store, << "p" >>, connector.call.limit) :
            ConnectorStep(ContextReturns(connector, store, vector))

\* handleAfterResponse(context), called by the chatting manager
ConnectorHandleAfterResponse ==
  /\ ConnectorIdle
  /\ ConnectorStep(AfterResponse(ConnectorCall(connector, "handleAfterResponse")))

\* the onAfterResponse of the LangChain adapter: it calls
\* connector.handleAfterResponse
AdapterOnAfterResponse ==
  /\ connector.call.pc = "adapter"
  /\ connector.call.depth < MaxReentry
  /\ ConnectorStep(AfterResponse([ connector EXCEPT !.call.depth = @ + 1 ]))

\* the nested calls use up the stack of the engine, at a depth the engine
\* chooses: the innermost call throws and every call rejects
AfterResponseOverflows ==
  /\ connector.call.pc = "adapter"
  /\ connector.call.depth > 0
  /\ ConnectorStep([ connector EXCEPT !.call.pc = "idle",
                                      !.call.error = ErrStack ])

\* a mutating method of the connector has run: the tables afterwards
ConnectorWrites(c, st, next, hist) ==
  /\ connector' = c
  /\ store' = st
  /\ nextId' = next
  /\ created' = hist
  /\ UNCHANGED << embeddingService, trav, retryVars, storageCall, running >>

\* connector.createMemory(content, { relatedMemoryIds }); the embedding
\* service, when storage asks it, gives the embedding or throws
ConnectorCreateMemory(content, related, ok) ==
  /\ ConnectorIdle
  /\ nextId <= MaxStored
  /\ IF ReadOnly(connector)
     THEN ConnectorStep(ConnectorThrows(connector, "createMemory", ErrReadOnly("create")))
     ELSE IF CreateGeneratesEmbedding(NoEmbedding, TRUE, embeddingService) /\ ~ok
     THEN ConnectorStep(ConnectorThrows(connector, "createMemory", ErrProvider))
     ELSE ConnectorWrites(
            ConnectorCall(connector, "createMemory"),
            ConnectorCreated(store, nextId, << "p" >>, content,
                             IF CreateGeneratesEmbedding(NoEmbedding, TRUE,
                                                         embeddingService)
                             THEN ProviderEmbedding(NormalizeText(content))
                             ELSE NoEmbedding,
                             related),
            nextId + 1,
            [ x \in (DOMAIN created) \cup { nextId } |->
                IF x = nextId THEN << "p" >> ELSE created[x] ])

\* connector.updateMemory(memoryId, content)
ConnectorUpdateMemory(memoryId, content, ok) ==
  /\ ConnectorIdle
  /\ IF ReadOnly(connector)
     THEN ConnectorStep(ConnectorThrows(connector, "updateMemory", ErrReadOnly("update")))
     ELSE IF UpdateGeneratesEmbedding(ContentUpdates(content), embeddingService)
             /\ ~ok
     THEN ConnectorStep(ConnectorThrows(connector, "updateMemory", ErrProvider))
     ELSE IF ~RowExists(store, memoryId)
     THEN ConnectorStep(ConnectorThrows(connector, "updateMemory",
                                        ErrAdapterNotFound))
     ELSE ConnectorWrites(
            ConnectorCall(connector, "updateMemory"),
            AdapterUpdateMemory(
              store, memoryId,
              [ NoUpdates EXCEPT
                  !.content = Given(content),
                  !.embedding =
                    IF UpdateGeneratesEmbedding(ContentUpdates(content),
                                                embeddingService)
                    THEN Given(ProviderEmbedding(NormalizeText(content)))
                    ELSE Absent ]),
            nextId, created)

\* connector.deleteMemory(memoryId)
ConnectorDeleteMemory(memoryId) ==
  /\ ConnectorIdle
  /\ IF ReadOnly(connector)
     THEN ConnectorStep(ConnectorThrows(connector, "deleteMemory", ErrReadOnly("delete")))
     ELSE ConnectorWrites(
            ConnectorCall(connector, "deleteMemory"),
            AdapterDeleteMemory(store, memoryId),
            nextId,
            [ x \in (DOMAIN created) \ { memoryId } |-> created[x] ])

NextConnector ==
  \/ \E related \in { <<>>, << 1 >> }, ok \in BOOLEAN :
       ConnectorCreateMemory(<< "a" >>, related, ok)
  \/ \E memoryId \in 1..MaxStored, ok \in BOOLEAN :
       ConnectorUpdateMemory(memoryId, << "b" >>, ok)
  \/ \E memoryId \in 1..MaxStored : ConnectorDeleteMemory(memoryId)
  \/ \E target \in TargetInputs : ConnectorConnect(target)
  \/ ConnectorDisconnect
  \/ ConnectorHandleContextChange
  \/ ConnectorPrepareContext
  \/ ConnectorSearchSettles
  \/ ConnectorHandleAfterResponse
  \/ AdapterOnAfterResponse
  \/ AfterResponseOverflows

SpecConnector == InitConnector /\ [][NextConnector]_vars

(***************************************************************************)
(* Properties of the tool handler.                                         *)
(***************************************************************************)
\* how often id occurs in a list
Occurrences(edges, id) == Cardinality({ k \in 1..Len(edges) : edges[k] = id })

\* the call repeated on the table the first call left
Again(m) == Run(Machine(m.store, m.nextId, m.created, m.service, m.params))

\* C1: after a successful handleCreateMemory(content, E, relatedMemoryIds)
\* the new node N exists, N.outgoingEdges holds every related id, and every
\* related node R has N.id in its outgoingEdges: appended once, at the end of
\* the list R had before the call
C1_CreateLinksBothWays ==
  \A content \in ContentInputs, entityId \in EntityInputs,
     related \in RelatedInputs :
    \A m \in Calls(CreateParams(content, entityId, related)) :
      m.success =>
        /\ m.newId \notin DOMAIN store
        /\ m.newId \in DOMAIN m.store
        /\ Range(related) \subseteq Range(m.store[m.newId].outgoingEdges)
        /\ \A r \in Range(related) :
             /\ r \in DOMAIN m.store
             /\ m.store[r].outgoingEdges =
                  Append(store[r].outgoingEdges, m.newId)
             /\ Occurrences(m.store[r].outgoingEdges, m.newId) = 1

\* C1 witness: a create naming two related memories, and one naming the same
\* related memory twice, succeed on a table whose related rows have edges
C1_Witness ==
  /\ \E content \in ContentInputs, entityId \in EntityInputs,
        related \in RelatedInputs :
       /\ Len(related) = 2 /\ related[1] # related[2]
       /\ \E r \in Range(related) :
            r \in DOMAIN store /\ store[r].outgoingEdges # <<>>
       /\ \E m \in Calls(CreateParams(content, entityId, related)) : m.success
  /\ \E content \in ContentInputs, entityId \in EntityInputs,
        related \in RelatedInputs :
       /\ Len(related) = 2 /\ related[1] = related[2]
       /\ \E m \in Calls(CreateParams(content, entityId, related)) : m.success

\* C2: after a successful handleDeleteMemory(n) node n is gone, no node of
\* n's entity has n in its outgoingEdges, and each of them keeps its other
\* edges in their order
C2_DeleteCleansEdges ==
  \A n \in IdInputs :
    \A m \in Calls(DeleteParams(n)) :
      m.success =>
        /\ n \in DOMAIN store
        /\ DOMAIN m.store = (DOMAIN store) \ {n}
        /\ \A x \in DOMAIN m.store :
             store[x].entityId = store[n].entityId =>
               /\ n \notin Range(m.store[x].outgoingEdges)
               /\ m.store[x].outgoingEdges =
                    SelectSeq(store[x].outgoingEdges, LAMBDA e : e # n)

\* C2 witness: a node with outgoingEdges [n, k] when handleDeleteMemory(n)
\* succeeds, after which it has [k]
C2_Witness ==
  \E n \in Ids, k \in Ids, x \in DOMAIN store :
    /\ n # k
    /\ store[x].outgoingEdges = << n, k >>
    /\ \E m \in Calls(DeleteParams(n)) :
         m.success /\ m.store[x].outgoingEdges = << k >>

\* x and y are two memories of one entity
Linkable(x, y) ==
  /\ x \in DOMAIN store /\ y \in DOMAIN store /\ x # y
  /\ store[x].entityId = store[y].entityId

\* C3: handleUpdateMemoryLink(x, y, 'add') that succeeded fails with 'Link
\* already exists' when repeated; 'remove' on two memories of one entity that
\* are not linked fails with 'Link does not exist'; neither failure changes
\* the table
C3_StrictLinks ==
  \A x \in IdInputs, y \in IdInputs :
    /\ \A m \in Calls(LinkParams(x, y, "add")) :
         m.success =>
           \A again \in Again(m) :
             /\ ~again.success
             /\ again.error = ErrExists
             /\ again.store = m.store
    /\ (Linkable(x, y) /\ y \notin Range(store[x].outgoingEdges)) =>
         \A m \in Calls(LinkParams(x, y, "remove")) :
           /\ ~m.success
           /\ m.error = ErrNoLink
           /\ m.store = store

\* C3 witness: an add that succeeds (and then is repeated), and a remove on
\* two memories that were never linked
C3_Witness ==
  /\ \E x \in Ids, y \in Ids :
       \E m \in Calls(LinkParams(x, y, "add")) :
         m.success /\ \E again \in Again(m) : again.error = ErrExists
  /\ \E x \in Ids, y \in Ids :
       /\ Linkable(x, y)
       /\ \A z \in DOMAIN store : store[z].outgoingEdges = <<>>
       /\ \E m \in Calls(LinkParams(x, y, "remove")) : m.error = ErrNoLink

\* C9: getMemoriesByEntity(E1) lists exactly the existing nodes created with
\* entityId = E1, each once, and never a node created with another entityId
C9_ListingIsolated ==
  \A e \in EntityInputs :
    LET listed == GetMemoriesByEntity(store, e)
    IN /\ Range(listed) = { x \in DOMAIN store : created[x] = e }
       /\ \A x \in Range(listed) : Occurrences(listed, x) = 1

\* C9 witness: nodes of two entities are stored after a create, an update
\* that changed a content and a delete
C9_Witness ==
  /\ \E x \in DOMAIN store, y \in DOMAIN store : created[x] # created[y]
  /\ \E x \in DOMAIN store : store[x].content = << "b" >>
  /\ nextId > Cardinality(DOMAIN store) + 1
  /\ \E e \in EntityInputs : Len(GetMemoriesByEntity(store, e)) = 1

\* the parameters of every tool call
AllParams ==
  { CreateParams(content, entityId, related) :
      content \in ContentInputs, entityId \in EntityInputs,
      related \in RelatedInputs }
  \cup { Params("update", content, <<>>, <<>>, memoryId, EmptyId, "") :
           content \in ContentInputs, memoryId \in IdInputs }
  \cup { LinkParams(fromId, toId, action) :
           fromId \in IdInputs, toId \in IdInputs, action \in Actions }
  \cup { DeleteParams(memoryId) : memoryId \in IdInputs }

\* the ways a call can run when the adapter can fail at every await
FaultyCalls(params) ==
  Run(FaultyMachine(store, nextId, created, embeddingService, params))

\* C17: every run of each of the four handlers, whatever the input and
\* wherever the adapter or the embedding service fails, ends by returning a
\* result (never by raising), and a result with success = false carries an
\* error string
C17_TaggedResults ==
  \A params \in AllParams :
    \A m \in FaultyCalls(params) :
      /\ m.pc = "done"
      /\ m.success \in BOOLEAN
      /\ ~m.success => m.error # ""
      /\ m.success => m.error = ""

\* C17 witness: runs of handleCreateMemory and handleDeleteMemory that fail
\* on a database error after they have written, a run of handleUpdateMemory
\* that fails on the provider's error, and a run of handleUpdateMemoryLink
\* that fails on a database error
C17_Witness ==
  /\ \E params \in AllParams : \E m \in FaultyCalls(params) :
       /\ params.op = "create" /\ m.error = ErrAdapter /\ m.store # store
  /\ \E params \in AllParams : \E m \in FaultyCalls(params) :
       /\ params.op = "delete" /\ m.error = ErrAdapter /\ m.store # store
  /\ \E params \in AllParams : \E m \in FaultyCalls(params) :
       /\ params.op = "update" /\ m.error = ErrProvider
  /\ \E params \in AllParams : \E m \in FaultyCalls(params) :
       /\ params.op = "link" /\ m.error = ErrAdapter

(***************************************************************************)
(* Properties of the traversals.                                           *)
(***************************************************************************)
\* the ids a row points to (a missing row points nowhere)
Successors(st, x) == IF x \in DOMAIN st THEN Range(st[x].outgoingEdges) ELSE {}

\* the ids at exactly d hops (d >= 0) from some id of S
RECURSIVE AtHops(_, _, _)
AtHops(st, S, d) ==
  IF d = 0 THEN S
  ELSE UNION { Successors(st, x) : x \in AtHops(st, S, d - 1) }

\* the existing nodes outside S that some id of S reaches in 1..depth hops
Reachable(st, S, depth) ==
  ((UNION { AtHops(st, S, d) : d \in 1..depth }) \cap DOMAIN st) \ S

\* the least number of hops from x to y, for y reachable from x
Distance(st, x, y) ==
  CHOOSE d \in 1..(MaxIds + 1) :
    /\ y \in AtHops(st, {x}, d)
    /\ \A e \in 1..(d - 1) : y \notin AtHops(st, {x}, e)

\* getConnectedMemories has returned
BfsReturned == trav.pc \in { "single", "multiple", "end" } /\ Cardinality(trav.starts) = 1

\* C4: getConnectedMemories(A, D) with D >= 1 returns exactly the existing
\* nodes other than A that A reaches in 1..D hops
C4_BfsExact ==
  (BfsReturned /\ trav.depth >= 1) =>
    IdsOf(trav.bfs.results) = Reachable(store, trav.starts, trav.depth)

\* C4 witness: edges A->B->C, depth 2, and {B, C} returned
C4_Witness ==
  /\ BfsReturned
  /\ trav.depth = 2
  /\ \E a \in Ids, b \in Ids, c \in Ids :
       /\ Cardinality({ a, b, c }) = 3
       /\ trav.starts = { a }
       /\ DOMAIN store = { a, b, c }
       /\ store[a].outgoingEdges = << b >>
       /\ store[b].outgoingEdges = << c >>
       /\ store[c].outgoingEdges = <<>>
       /\ IdsOf(trav.bfs.results) = { b, c }

\* every node emitted so far was emitted once, at its distance from the start
EmittedOnceAtDistance ==
  \A k \in 1..Len(trav.bfs.results) :
    /\ \A j \in 1..Len(trav.bfs.results) :
         trav.bfs.results[j].id = trav.bfs.results[k].id => j = k
    /\ trav.bfs.results[k].id \in Reachable(store, trav.starts, trav.depth)
    /\ trav.bfs.results[k].depth =
         Distance(store, StartOf(trav), trav.bfs.results[k].id)

\* C5: getConnectedMemories terminates on every graph, cycles included, and
\* emits each node once, at the least depth at which it is reachable
C5_BfsTerminates ==
  /\ <>(trav.pc # "bfs")
  /\ [](Cardinality(trav.starts) = 1 => EmittedOnceAtDistance)

\* C5 witness: the 2-cycle A->B->A, depth 10, and exactly B returned
C5_Witness ==
  /\ BfsReturned
  /\ trav.depth = DeepDepth
  /\ \E a \in Ids, b \in Ids :
       /\ a # b
       /\ trav.starts = { a }
       /\ DOMAIN store = { a, b }
       /\ store[a].outgoingEdges = << b >>
       /\ store[b].outgoingEdges = << a >>
       /\ trav.bfs.results = << Entry(b, 1) >>

\* C6: no traversal emits a start node, and a traversal with depth 0 emits
\* nothing
C6_StartsExcluded ==
  /\ IdsOf(trav.bfs.results) \cap trav.starts = {}
  /\ IdsOf(trav.single) \cap trav.starts = {}
  /\ IdsOf(trav.multiple) \cap trav.starts = {}
  /\ trav.depth = 0 =>
       trav.bfs.results = <<>> /\ trav.single = <<>> /\ trav.multiple = <<>>

\* C6 witness: a start node that is reachable again through a cycle, with
\* the traversals done and their results not empty
C6_Witness ==
  /\ trav.pc = "end"
  /\ trav.bfs.results # <<>>
  /\ trav.multiple # <<>>
  /\ \E a \in trav.starts, d \in 2..MaxDepth :
       d <= trav.depth /\ a \in AtHops(store, {a}, d) /\ a \in DOMAIN store

\* C7: getConnectedMemoriesFromMultiple(S, D) returns each node once, no
\* member of S, and exactly the nodes within D hops of some member of S: the
\* union of the single-source results, minus S
C7_MultipleExact ==
  trav.pc = "end" =>
    /\ \A j \in 1..Len(trav.multiple), k \in 1..Len(trav.multiple) :
         trav.multiple[j].id = trav.multiple[k].id => j = k
    /\ IdsOf(trav.multiple) \cap trav.starts = {}
    /\ IdsOf(trav.multiple) = Reachable(store, trav.starts, trav.depth)
    /\ IdsOf(trav.multiple) =
         (UNION { IdsOf(GetConnectedMemories(store, x, trav.depth)) :
                    x \in trav.starts }) \ trav.starts
    /\ IdsOf(trav.multiple) =
         (UNION { IdsOf(SqlGetConnectedMemories(store, x, trav.depth)) :
                    x \in trav.starts }) \ trav.starts

\* C7 witness: a node returned that two members of S reach, and a member of
\* S that another member reaches
C7_Witness ==
  /\ trav.pc = "end"
  /\ \E x \in trav.starts, y \in trav.starts, z \in IdsOf(trav.multiple) :
       /\ x # y
       /\ z \in Reachable(store, {x}, trav.depth)
       /\ z \in Reachable(store, {y}, trav.depth)
       /\ y \in Reachable(store, {x}, trav.depth)

\* C8: get_connected_memories returns the same set of nodes as the BFS of
\* getConnectedMemories
C8_SqlEqualsBfs ==
  (trav.pc \in { "multiple", "end" } /\ Cardinality(trav.starts) = 1) =>
    IdsOf(trav.single) = IdsOf(trav.bfs.results)

\* C8 witness: a graph with a cycle through the start and an edge to a
\* missing row, and both traversals returning a node
C8_Witness ==
  /\ trav.pc = "end"
  /\ Cardinality(trav.starts) = 1
  /\ trav.single # <<>>
  /\ trav.bfs.results # <<>>
  /\ StartOf(trav) \in AtHops(store, trav.starts, 2)
  /\ \E x \in DOMAIN store : ~(Range(store[x].outgoingEdges) \subseteq DOMAIN store)

(***************************************************************************)
(* Properties of the retry loop.                                           *)
(***************************************************************************)
RECURSIVE Pow(_, _)
Pow(b, e) == IF e = 0 THEN 1 ELSE b * Pow(b, e - 1)

\* the provider calls that threw
Failures(r) == { i \in DOMAIN r.outcomes : ~r.outcomes[i] }

\* the provider failed at each of its first k calls and succeeded at the next
FailsThenSucceeds(r, k) ==
  /\ Len(r.outcomes) = k + 1
  /\ \A i \in 1..k : ~r.outcomes[i]
  /\ r.outcomes[k + 1]

\* C10: when the provider fails k times and then succeeds, with
\* k <= maxRetries, the call succeeds after exactly k + 1 provider calls and
\* exactly k sleeps, the i-th sleep (from 0) of initialDelayMs *
\* backoffFactor^i milliseconds; and the call never gives up with the
\* provider's error after maxRetries failures or fewer.
C10_RetryBackoff ==
  /\ \A k \in 0..(DefaultMaxRetries + MaxRetriesGiven + 1) :
       (retry.pc = "done" /\ FailsThenSucceeds(retry, k)) =>
         /\ k <= retry.options.maxRetries
         /\ retry.result = "ok"
         /\ Len(retry.sleeps) = k
         /\ \A i \in 0..(k - 1) :
              retry.sleeps[i + 1] =
                retry.options.initialDelayMs * Pow(retry.options.backoffFactor, i)
  /\ (retry.pc = "done" /\ retry.result = ErrProvider) =>
       Cardinality(Failures(retry)) > retry.options.maxRetries

C10_Witness ==
  /\ retry.pc = "done"
  /\ retry.result = "ok"
  /\ retry.options.maxRetries = DefaultMaxRetries
  /\ FailsThenSucceeds(retry, 2)
  /\ retry.sleeps = << DefaultInitialDelayMs, 2 * DefaultInitialDelayMs >>

\* C11: when every provider call fails and the signal is not aborted, the
\* call makes maxRetries + 1 provider calls (maxRetries >= 0), sleeps between
\* them only (maxRetries times, not after the last failure) and ends with the
\* error of the last provider call
C11_RetriesExhausted ==
  ( /\ retry.pc = "done"
    /\ retry.outcomes # <<>>
    /\ \A i \in DOMAIN retry.outcomes : ~retry.outcomes[i]
    /\ ~aborted
    /\ retry.options.maxRetries >= 0 ) =>
      /\ Len(retry.outcomes) = retry.options.maxRetries + 1
      /\ Len(retry.sleeps) = retry.options.maxRetries
      /\ retry.result = ErrProvider
      /\ retry.errorOf = Len(retry.outcomes)

\* C11 witness: the default maxRetries, four failed calls, three sleeps
C11_Witness ==
  /\ retry.pc = "done"
  /\ retry.options.maxRetries = DefaultMaxRetries
  /\ retry.outcomes = << FALSE, FALSE, FALSE, FALSE >>
  /\ Len(retry.sleeps) = DefaultMaxRetries
  /\ retry.result = ErrProvider
  /\ ~aborted

\* C12: a provider call that fails while the signal is aborted and retries
\* remain ends the call at once with 'Operation aborted': no sleep is added,
\* and a call that has ended makes no further provider call
C12_AbortBetweenRetries ==
  [][ /\ ( /\ retry.pc = "call"
           /\ retry.options.signal /\ aborted
           /\ retry.attempt + 1 <= retry.options.maxRetries
           /\ retry'.outcomes = Append(retry.outcomes, FALSE) ) =>
             /\ retry'.pc = "done"
             /\ retry'.result = ErrAborted
             /\ retry'.sleeps = retry.sleeps
      /\ retry.pc = "done" => retry' = retry ]_vars

\* C12 witness: the signal is aborted after the first failure (during the
\* sleep or the second call); the second failure ends the call
C12_Witness ==
  /\ retry.pc = "done"
  /\ retry.result = ErrAborted
  /\ retry.outcomes = << FALSE, FALSE >>
  /\ Len(retry.sleeps) = 1
  /\ retry.options.maxRetries = DefaultMaxRetries

\* C13: a text that is empty after trimming is rejected with 'Text cannot be
\* empty' before any provider call; any other text reaches the provider
\* trimmed
C13_TextNormalized ==
  retry.pc # "start" =>
    IF Trim(retry.text) = <<>>
    THEN /\ retry.pc = "done"
         /\ retry.result = ErrEmptyText
         /\ retry.outcomes = <<>>
    ELSE /\ retry.given = Trim(retry.text)
         /\ retry.result # ErrEmptyText

\* C13 witness: a text of whitespace only is rejected
C13_Witness ==
  /\ retry.pc = "done"
  /\ retry.text = << " " >>
  /\ retry.result = ErrEmptyText
  /\ retry.outcomes = <<>>

(***************************************************************************)
(* Properties of MemoryStorage.                                            *)
(***************************************************************************)
\* the storage call has made this call below it
Made(c, event) == \E k \in 1..Len(c.io) : c.io[k] = event

\* a step in which a storage call of this kind begins
Begins(op) ==
  /\ StorageIdle
  /\ storageCall' # storageCall
  /\ storageCall'.op = op

\* a step in which the awaited call of a storage call of this kind settles
Settles(op, pc) == storageCall.op = op /\ storageCall.pc = pc

\* C14: searchByQuery with a text query and no embedding service throws the
\* configuration error having made no call to the embedding service, the
\* provider or the adapter; with a vector query it calls
\* adapter.searchByVector with that vector and nothing else
C14_SearchNeedsService ==
  storageCall.op = "searchByQuery" =>
    /\ (storageCall.query.kind = "text" /\ ~embeddingService) =>
         /\ storageCall.pc = "done"
         /\ storageCall.error = ErrNoService
         /\ storageCall.io = <<>>
    /\ storageCall.query.kind = "vector" =>
         /\ storageCall.io = << "adapter.searchByVector" >>
         /\ storageCall.embedding = storageCall.query.vector
         /\ storageCall.error = ""

\* C14 witness: a text query has thrown for want of an embedding service
C14_Witness ==
  /\ storageCall.op = "searchByQuery"
  /\ storageCall.query = TextQuery(<< "a" >>)
  /\ ~embeddingService
  /\ storageCall.error = ErrNoService
  /\ store # EmptyStore

\* the update of a storage call: content is given and not empty, and no
\* embedding is given
NewContentOnly(c) ==
  /\ IsGiven(c.updates.content) /\ ValueOf(c.updates.content) # <<>>
  /\ ~IsGiven(c.updates.embedding)

\* what a step of updateMemory(id, updates) does when the embedding is to be
\* regenerated: the embedding service is called first and the table is not
\* written before it has answered; the write stores the new content together
\* with the provider's embedding of it
RegeneratesThenWrites ==
  /\ Begins("updateMemory") =>
       /\ storageCall'.io = << "embeddingService.generateEmbedding" >>
       /\ storageCall'.text = ValueOf(storageCall'.updates.content)
       /\ store' = store
  /\ Settles("updateMemory", "embed") => store' = store
  /\ (Settles("updateMemory", "adapter") /\ RowExists(store, storageCall.memoryId)) =>
       /\ Made(storageCall, "provider")
       /\ store'[storageCall.memoryId].content = ValueOf(storageCall.updates.content)
       /\ store'[storageCall.memoryId].embedding =
            ProviderEmbedding(Trim(ValueOf(storageCall.updates.content)))

\* what a step of updateMemory(id, updates) does when updates carry an
\* embedding: no generation, and that vector is stored
StoresGivenEmbedding ==
  /\ Begins("updateMemory") =>
       storageCall'.io = << "adapter.updateMemory" >>
  /\ (Settles("updateMemory", "adapter") /\ RowExists(store, storageCall.memoryId)) =>
       /\ ~Made(storageCall, "embeddingService.generateEmbedding")
       /\ store'[storageCall.memoryId].embedding =
            ValueOf(storageCall.updates.embedding)

\* the call a step is about: the one that begins, or the one in progress
CallOfStep == IF StorageIdle THEN storageCall' ELSE storageCall

\* C15 as stated: updateMemory(id, newContent) without an explicit embedding
\* regenerates the embedding before the adapter write and stores it with the
\* new content; with an explicit embedding no generation occurs and that
\* vector is stored
C15_UpdateRegenerates ==
  [][ /\ NewContentOnly(CallOfStep) => RegeneratesThenWrites
      /\ IsGiven(CallOfStep.updates.embedding) => StoresGivenEmbedding ]_vars

\* C15 amended: the same, when an embedding service is configured
C15_UpdateRegeneratesWithService ==
  [][ /\ (NewContentOnly(CallOfStep) /\ embeddingService) => RegeneratesThenWrites
      /\ IsGiven(CallOfStep.updates.embedding) => StoresGivenEmbedding ]_vars

\* C15 witness: a row whose content and embedding were both replaced by an
\* updateMemory that gave the content only
C15_Witness ==
  /\ storageCall.op = "updateMemory"
  /\ storageCall.pc = "done"
  /\ storageCall.error = ""
  /\ NewContentOnly(storageCall)
  /\ embeddingService
  /\ storageCall.io = << "embeddingService.generateEmbedding", "provider",
                         "adapter.updateMemory" >>
  /\ store[storageCall.memoryId].content = << " ", "b" >>
  /\ store[storageCall.memoryId].embedding = ProviderEmbedding(<< "b" >>)

\* createMemory(memory, options) is to generate the embedding: none is
\* given, auto-generation is enabled and a service is configured
ToGenerate(c) ==
  c.memory.embedding = NoEmbedding /\ c.auto /\ embeddingService

\* the table after a row was inserted under the next id, the rest untouched
Inserted(row) ==
  /\ DOMAIN store' = (DOMAIN store) \cup { nextId }
  /\ nextId \notin DOMAIN store
  /\ store'[nextId] = row
  /\ \A x \in DOMAIN store : store'[x] = store[x]

\* C16: createMemory generates the embedding, when it is to generate one,
\* before it calls the adapter: the table is untouched until the embedding
\* service has answered, a failed generation ends the call with no row
\* inserted, and the row inserted carries the provider's embedding; in every
\* other case the adapter is called at once, no call goes to the embedding
\* service or the provider, and the row is inserted as given
C16_CreateGeneratesFirst ==
  [][ /\ Begins("createMemory") =>
           /\ store' = store
           /\ storageCall'.io =
                IF ToGenerate(storageCall')
                THEN << "embeddingService.generateEmbedding" >>
                ELSE << "adapter.createMemory" >>
      /\ Settles("createMemory", "embed") =>
           /\ ToGenerate(storageCall)
           /\ store' = store
           /\ storageCall'.pc = "done" =>
                /\ storageCall'.error \in { ErrEmptyText, ErrProvider }
                /\ ~Made(storageCall', "adapter.createMemory")
           /\ storageCall'.pc # "done" =>
                storageCall'.io = << "embeddingService.generateEmbedding",
                                     "provider", "adapter.createMemory" >>
      /\ Settles("createMemory", "adapter") =>
           IF ToGenerate(storageCall)
           THEN Inserted([ storageCall.memory EXCEPT
                             !.embedding = ProviderEmbedding(
                                             Trim(storageCall.memory.content)) ])
           ELSE /\ storageCall.io = << "adapter.createMemory" >>
                /\ Inserted(storageCall.memory) ]_vars

\* C16 witness: a createMemory whose embedding generation failed has ended,
\* and the table has no row
C16_Witness ==
  /\ storageCall.op = "createMemory"
  /\ storageCall.pc = "done"
  /\ storageCall.error = ErrProvider
  /\ ToGenerate(storageCall)
  /\ store = EmptyStore

\* the handler calls that update a row
UpdatingParams ==
  { Params("update", content, <<>>, <<>>, memoryId, EmptyId, "") :
      content \in ContentInputs, memoryId \in 1..MaxStored }
  \cup { Params("link", <<>>, <<>>, <<>>, fromId, toId, action) :
           fromId \in 1..MaxStored, toId \in 1..MaxStored,
           action \in { "add", "remove" } }

\* C20: an update (updateMemory with any update record, one that carries an
\* entityId included, updateOutgoingEdges, updateEmbedding) leaves every row
\* under its id with the entityId it had and was created with; so does every
\* run of handleUpdateMemory and handleUpdateMemoryLink, on every table an
\* adapter call finds (a deleteMemory is no update: it takes a row away)
C20_IdAndEntityKept ==
  [][ /\ storageCall.op # "deleteMemory" =>
           \A x \in DOMAIN store :
             /\ x \in DOMAIN store'
             /\ store'[x].entityId = store[x].entityId
             /\ store'[x].entityId = created[x]
      /\ storageCall.pc = "adapter" =>
           \A params \in UpdatingParams :
             \A m \in Calls(params) :
               /\ DOMAIN m.store = DOMAIN store
               /\ \A x \in DOMAIN store :
                    m.store[x].entityId = store[x].entityId ]_vars

\* C20 witness: updateMemory was given an entityId other than the row's, and
\* has written the row
C20_Witness ==
  /\ storageCall.op = "updateMemory"
  /\ storageCall.pc = "done"
  /\ storageCall.error = ""
  /\ storageCall.memoryId \in DOMAIN store
  /\ IsGiven(storageCall.updates.content)
  /\ IsGiven(storageCall.updates.entityId)
  /\ ValueOf(storageCall.updates.entityId) # store[storageCall.memoryId].entityId
  /\ store[storageCall.memoryId].content = ValueOf(storageCall.updates.content)
  /\ Cardinality(DOMAIN store) = MaxStored

(***************************************************************************)
(* Properties of interleaved handler calls.                                *)
(***************************************************************************)
\* the slots whose call is in progress
InProgress == { p \in Procs : ~Free(p) }

\* a slot whose call has returned the failure error
Refused(p, op, error) ==
  /\ Free(p)
  /\ running.calls[p].params.op = op
  /\ ~running.calls[p].success
  /\ running.calls[p].error = error

\* the edges of the table whose two ends both exist
LiveEdges ==
  { << u, v >> \in (DOMAIN store) \X (DOMAIN store) :
      v \in Range(store[u].outgoingEdges) }

\* C18: under every sequence and interleaving of handler calls, an edge u -> v
\* whose target exists joins two memories of the same entity
C18_SameEntityEdges ==
  \A e \in LiveEdges : store[e[1]].entityId = store[e[2]].entityId

\* C18 witness: the table holds memories of two entities and an edge between
\* two memories, while one call is in progress and the other caller's call
\* was refused for joining two entities
C18_Witness ==
  /\ \E u, v \in DOMAIN store : store[u].entityId # store[v].entityId
  /\ \E e \in LiveEdges : e[1] # e[2]
  /\ \E p, r \in Procs :
       /\ p \in InProgress
       /\ \/ Refused(r, "link", ErrEntities)
          \/ Refused(r, "create", ErrRelatedEntity)

\* C19: under every sequence and interleaving of handler calls, no memory's
\* edge list holds the memory's own id, and handleUpdateMemoryLink called
\* with the same id as source and target fails with 'Cannot link memory to
\* itself' and writes nothing
C19_NoSelfEdges ==
  /\ \A u \in DOMAIN store : u \notin Range(store[u].outgoingEdges)
  /\ \A x \in Ids, action \in Actions :
       \A m \in Calls(LinkParams(x, x, action)) :
         /\ ~m.success
         /\ m.error = ErrSelf
         /\ m.store = store

\* C19 witness: a link of a memory to itself was refused while the other
\* caller's call is in progress, and the table holds an edge
C19_Witness ==
  /\ \E e \in LiveEdges : e[1] # e[2]
  /\ \E p, r \in Procs :
       /\ p \in InProgress
       /\ Refused(r, "link", ErrSelf)

\* the call of slot p goes on by one step on the table st
StepOn(p, st) ==
  Step([ running.calls[p] EXCEPT !.store = st, !.nextId = nextId,
                                 !.created = created ])

\* the calls of slots p and r are both about to write the edges of the same
\* memory, each to add a target of its own, and the edges r read do not hold
\* p's target
Racing(p, r) ==
  LET a == running.calls[p]
      b == running.calls[r]
  IN /\ p # r
     /\ a.pc = "writeLink" /\ b.pc = "writeLink"
     /\ a.params.action = "add" /\ b.params.action = "add"
     /\ a.params.memoryId = b.params.memoryId
     /\ a.params.toMemoryId # b.params.toMemoryId
     /\ a.params.memoryId \in DOMAIN store
     /\ ~Includes(b.memory.outgoingEdges, a.params.toMemoryId)

\* C21: two calls of handleUpdateMemoryLink(x, ., 'add') with distinct
\* targets that have both read x before either has written lose an update:
\* when the one writes and then the other, both return success and the
\* edges of x end as the second writer computed them, without the first
\* writer's target
C21_LostUpdate ==
  \A p, r \in Procs :
    Racing(p, r) =>
      \A n1 \in StepOn(p, store) :
        \A n2 \in StepOn(r, n1.store) :
          LET x == running.calls[p].params.memoryId
          IN /\ n1.pc = "done" /\ n1.success
             /\ n2.pc = "done" /\ n2.success
             /\ Includes(n1.store[x].outgoingEdges,
                         running.calls[p].params.toMemoryId)
             /\ n2.store[x].outgoingEdges = running.calls[r].updatedEdges
             /\ ~Includes(n2.store[x].outgoingEdges,
                          running.calls[p].params.toMemoryId)

\* the call of slot p was handleUpdateMemoryLink(x, y, 'add') and returned
\* success
Added(p, x, y) ==
  /\ Free(p)
  /\ running.calls[p].params = LinkParams(x, y, "add")
  /\ running.calls[p].success

\* C21 witness: two calls handleUpdateMemoryLink(x, y, 'add') and
\* handleUpdateMemoryLink(x, z, 'add') have both returned success, and the
\* edges of x hold z and not y
C21_Witness ==
  \E p, r \in Procs, x, y, z \in DOMAIN store :
    /\ p # r /\ y # z
    /\ Added(p, x, y)
    /\ Added(r, x, z)
    /\ Includes(store[x].outgoingEdges, z)
    /\ ~Includes(store[x].outgoingEdges, y)

(***************************************************************************)
(* Properties of handler calls whose storage calls fail.                   *)
(***************************************************************************)
\* the runs of handleDeleteMemory(id) in which a cleanup write failed
FailedCleanups(id) ==
  { m \in FaultyCalls(DeleteParams(id)) : m.rejected # <<>> }

\* the row with id taken out of its edges, as the cleanup write leaves it
Cleaned(row, id) ==
  [ row EXCEPT !.outgoingEdges = FilterOut(row.outgoingEdges, id) ]

\* C22 as stated: when a cleanup write of handleDeleteMemory fails, the
\* handler goes on and the memory is deleted all the same
C22_DeleteContinues ==
  \A id \in Ids : \A m \in FailedCleanups(id) : id \notin DOMAIN m.store

\* C22 amended: when a cleanup write of handleDeleteMemory fails, the handler
\* returns success = false with the error of the write and never calls
\* deleteMemory: the memory is still stored, unchanged; the rows whose
\* cleanup write failed are unchanged, and each other row is unchanged or
\* has lost the id from its edges
C22_DeleteAborts ==
  \A id \in Ids :
    \A m \in FailedCleanups(id) :
      /\ ~m.success
      /\ m.error = ErrAdapter
      /\ DOMAIN m.store = DOMAIN store
      /\ m.store[id] = store[id]
      /\ \A x \in DOMAIN store :
           /\ m.store[x] \in { store[x], Cleaned(store[x], id) }
           /\ x \in Range(m.rejected) => m.store[x] = store[x]

\* C22 witness: a memory that two others point to, and a run of
\* handleDeleteMemory on it in which one cleanup write failed and the other
\* was applied
C22_Witness ==
  \E id \in DOMAIN store :
    \E m \in FailedCleanups(id) :
      /\ Len(m.rejected) = 1
      /\ \E x \in DOMAIN store :
           m.store[x] # store[x] /\ m.store[x] = Cleaned(store[x], id)
      /\ id \in DOMAIN m.store


(***************************************************************************)
(* Properties of MemoryConnector.getContext.                               *)
(***************************************************************************)
\* getContext has returned a list
ContextReturned ==
  /\ connector.call.op = "getContext"
  /\ connector.call.pc = "idle"
  /\ connector.call.error = ""

\* a memory of the list the vector search returned (phase 1)
Phase1(id) == Includes(connector.call.vector, id)

\* C23: the list getContext returns has every phase-1 memory (vector hit)
\* before any phase-2 memory (found over edges), and holds a phase-2 memory
\* only if it holds every phase-1 memory: truncation never drops a vector
\* hit in favour of a connected memory
C23_Phase1First ==
  ContextReturned =>
    LET memories == connector.call.memories
    IN /\ \A a, b \in 1..Len(memories) :
            a < b /\ ~Phase1(memories[a]) => ~Phase1(memories[b])
       /\ (\E a \in 1..Len(memories) : ~Phase1(memories[a]))
            => \A id \in Ids : Phase1(id) => Includes(memories, id)

\* a call that shows it: two vector hits, the first with an edge to a third
\* memory, under maxMemoryCount 2: the second hit is dropped, the connected
\* memory kept
C23_Starved ==
  /\ ContextReturned
  /\ connector.config.maxMemoryCount = 2
  /\ connector.call.vector = << 1, 2 >>
  /\ store[1].outgoingEdges = << 3 >>
  /\ connector.call.memories = << 1, 3 >>

(***************************************************************************)
(* Properties of the adapter on ids that are not stored.                   *)
(***************************************************************************)
\* the adapter call of a storage call on a memory id settles
AdapterSettlesOn(op) ==
  /\ StorageAdapterSettles
  /\ storageCall.op = op

\* C24: on an id that is not stored, the adapter signals it (getMemory
\* resolves with null where it gives the row of a stored id, updateMemory
\* throws 'Memory not found', deleteMemory resolves with false where it
\* gives true for a stored id) and the table stays as it was
C24_MissingIdSignalled ==
  [][ /\ AdapterSettlesOn("getMemory") =>
          /\ store' = store
          /\ storageCall'.error = ""
          /\ storageCall'.returned = "null" <=> ~RowExists(store, storageCall.memoryId)
          /\ storageCall'.returned = "memory" <=> RowExists(store, storageCall.memoryId)
      /\ AdapterSettlesOn("updateMemory") =>
          /\ storageCall'.error = ErrAdapterNotFound
               <=> ~RowExists(store, storageCall.memoryId)
          /\ ~RowExists(store, storageCall.memoryId) =>
               store' = store /\ storageCall'.returned = ""
          /\ RowExists(store, storageCall.memoryId) =>
               storageCall'.error = "" /\ storageCall'.returned = "memory"
      /\ AdapterSettlesOn("deleteMemory") =>
          /\ storageCall'.error = ""
          /\ storageCall'.returned = "false" <=> ~RowExists(store, storageCall.memoryId)
          /\ storageCall'.returned = "true" <=> RowExists(store, storageCall.memoryId)
          /\ ~RowExists(store, storageCall.memoryId) => store' = store
          /\ DOMAIN store' = DOMAIN store \ { storageCall.memoryId } ]_vars

\* get, update and delete have each been called on an id that is not stored
\* while another memory is: here a delete has just resolved with false
C24_Witness ==
  /\ storageCall.op = "deleteMemory"
  /\ storageCall.pc = "done"
  /\ storageCall.returned = "false"
  /\ ~RowExists(store, storageCall.memoryId)
  /\ store # EmptyStore

(***************************************************************************)
(* Properties of handler calls that fail validation.                       *)
(***************************************************************************)
\* the errors of the handlers' validation
ValidationErrors ==
  { ErrContent, ErrEntity, ErrRelatedNotFound, ErrRelatedEntity, ErrUuid,
    ErrNotFound, ErrFrom, ErrTo, ErrSelf, ErrAction, ErrEntities, ErrExists,
    ErrNoLink }

\* the parameters are invalid on the current table: empty content or
\* entityId, an empty or unknown memory id, a related or linked memory of
\* another entity, a link of a memory to itself, an action that is neither
\* add nor remove, an add of a link that exists, a remove of one that does not
Invalid(params) ==
  CASE params.op = "create" ->
         \/ IsBlank(params.content)
         \/ IsBlank(params.entityId)
         \/ \E k \in 1..Len(params.relatedMemoryIds) :
              LET r == params.relatedMemoryIds[k]
              IN r \notin DOMAIN store \/ store[r].entityId # params.entityId
    [] params.op = "update" ->
         \/ params.memoryId \notin DOMAIN store
         \/ IsBlank(params.content)
    [] params.op = "link" ->
         \/ params.memoryId \notin DOMAIN store
         \/ params.toMemoryId \notin DOMAIN store
         \/ params.memoryId = params.toMemoryId
         \/ params.action \notin { "add", "remove" }
         \/ store[params.memoryId].entityId # store[params.toMemoryId].entityId
         \/ params.action = "add"
              /\ Includes(store[params.memoryId].outgoingEdges, params.toMemoryId)
         \/ params.action = "remove"
              /\ ~Includes(store[params.memoryId].outgoingEdges, params.toMemoryId)
    [] params.op = "delete" -> params.memoryId \notin DOMAIN store

\* the call left the table, the ids handed out and the rows' history as they
\* were and asked for no embedding
NothingDone(m) ==
  /\ m.store = store
  /\ m.nextId = nextId
  /\ m.created = created
  /\ m.embedding = NoEmbedding

\* C25: a handler call whose parameters are invalid fails with a validation
\* error, and a call that fails with a validation error leaves the whole
\* table unchanged (no row created, deleted or modified) and generates no
\* embedding
C25_InvalidCallsChangeNothing ==
  \A params \in AllParams :
    \A m \in Calls(params) :
      /\ Invalid(params) =>
           ~m.success /\ m.error \in ValidationErrors /\ NothingDone(m)
      /\ m.error \in ValidationErrors => ~m.success /\ NothingDone(m)

\* C25 witness: on a table with a link 1 -> 2 of entity p and no memory 3,
\* with an embedding service, calls fail validation in each of the ways
\* named (but for a link across entities, which takes a third memory)
C25_Witness ==
  /\ embeddingService
  /\ DOMAIN store = { 1, 2 }
  /\ store[1].entityId = << "p" >> /\ store[2].entityId = << "p" >>
  /\ store[1].outgoingEdges = << 2 >> /\ store[2].outgoingEdges = <<>>
  /\ { m.error : m \in UNION { Calls(params) : params \in AllParams } }
       \cap ValidationErrors = ValidationErrors \ { ErrEntities }
  /\ \E params \in AllParams : Invalid(params) /\ ~IsBlank(params.content)

(***************************************************************************)
(* Properties of the tables that handler calls, one after the other, make. *)
(***************************************************************************)
\* the edges of a table that name no row of it
Dangling(st) ==
  { e \in (DOMAIN st) \X Ids :
      Includes(st[e[1]].outgoingEdges, e[2]) /\ e[2] \notin DOMAIN st }

\* C26: after any sequence of handler calls, one after the other and with
\* no storage call failing, every id in any outgoingEdges list is the id of
\* a stored memory
C26_NoDanglingEdges ==
  /\ Dangling(store) = {}
  /\ \A x \in DOMAIN store :
       \A k \in 1..Len(store[x].outgoingEdges) :
         store[x].outgoingEdges[k] \in DOMAIN store

\* C26 witness: a memory has been deleted, the memories left are linked,
\* and one that another links to can be deleted now
C26_Witness ==
  /\ Cardinality(DOMAIN store) < nextId - 1
  /\ \E x \in DOMAIN store, y \in DOMAIN store :
       /\ Includes(store[x].outgoingEdges, y)
       /\ \E m \in Calls(DeleteParams(y)) : m.success /\ Dangling(m.store) = {}

\* C27: on every table the handlers make (those with memories created from
\* a relatedMemoryIds list that names an id twice included), after a
\* handleUpdateMemoryLink(x, y, 'remove') that succeeds y is not in
\* x.outgoingEdges, and the same remove again fails with 'Link does not
\* exist'
C27_RemoveRemoves ==
  \A x \in Ids, y \in Ids :
    \A m \in Calls(LinkParams(x, y, "remove")) :
      m.success =>
        /\ ~Includes(m.store[x].outgoingEdges, y)
        /\ \A again \in Again(m) : ~again.success /\ again.error = ErrNoLink

\* a table that shows otherwise: memory 2 was created with relatedMemoryIds
\* [1, 1]; a remove of 2 -> 1 succeeds and leaves 2 -> 1, and succeeds again
C27_StillLinked ==
  /\ DOMAIN store = { 1, 2 }
  /\ store[2].outgoingEdges = << 1, 1 >>
  /\ \E m \in Calls(LinkParams(2, 1, "remove")) :
       /\ m.success
       /\ m.store[2].outgoingEdges = << 1 >>
       /\ \E again \in Again(m) : again.success

\* the handleUpdateMemoryLink(y, x, 'add') calls on the table a call left
Back(m, y, x) ==
  Run(Machine(m.store, m.nextId, m.created, m.service, LinkParams(y, x, "add")))

\* C28: a handleUpdateMemoryLink(x, y, 'add') that succeeds leaves the table
\* it found with y appended at the end of x.outgoingEdges and nothing else
\* changed (no edge y -> x is added, no other row and no other field of x
\* changes); unless y -> x was there already, it can then be added, which
\* appends x to y.outgoingEdges and leaves x -> y: a cycle
C28_AddAppendsOnly ==
  \A x \in Ids, y \in Ids :
    \A m \in Calls(LinkParams(x, y, "add")) :
      m.success =>
        /\ m.store = [ store EXCEPT ![x].outgoingEdges = Append(@, y) ]
        /\ m.nextId = nextId
        /\ m.embedding = NoEmbedding
        /\ ~Includes(store[y].outgoingEdges, x) =>
             \A n \in Back(m, y, x) :
               /\ n.success
               /\ n.store = [ m.store EXCEPT ![y].outgoingEdges = Append(@, x) ]
               /\ Includes(n.store[x].outgoingEdges, y)
               /\ Includes(n.store[y].outgoingEdges, x)

\* C28 witness: an add x -> y succeeds on a table of three memories where x
\* has an edge and an embedding already and y has no edge to x, and the
\* add y -> x after it succeeds too
C28_Witness ==
  \E x \in Ids, y \in Ids :
    /\ DOMAIN store = Ids
    /\ store[x].outgoingEdges # <<>>
    /\ store[x].embedding # NoEmbedding
    /\ ~Includes(store[y].outgoingEdges, x)
    /\ \E m \in Calls(LinkParams(x, y, "add")) :
         /\ m.success
         /\ \E n \in Back(m, y, x) : n.success

(***************************************************************************)
(* Properties of the connector.                                            *)
(***************************************************************************)
\* C29: a call of handleAfterResponse with autoGenerate enabled returns,
\* connected to a callback, to a chatting manager or to a LangChain chain:
\* the connector is not entered again and again from the call (the nested
\* calls of handleAfterResponse stay below any number that is followed)
C29_AfterResponseReturns ==
  connector.call.op = "handleAfterResponse" =>
    /\ connector.call.depth < MaxReentry
    /\ connector.call.error = ""

\* a call that shows otherwise: connected to a LangChain chain, the call is
\* in the adapter's onAfterResponse for the MaxReentry-th time in a row
C29_Reentered ==
  /\ connector.isConnected
  /\ connector.config.autoGenerate
  /\ connector.chattingManager.kind = "adapter"
  /\ connector.call.op = "handleAfterResponse"
  /\ connector.call.pc = "adapter"
  /\ connector.call.depth = MaxReentry

\* C30: the methods a call of handleContextChange, handleAfterResponse or
\* prepareContext invokes are methods of the target the connector is
\* connected to: none after disconnect(), none of an earlier target after
\* a later connect()
C30_OnlyConnectedInvoked ==
  \A e \in connector.call.invoked :
    connector.isConnected /\ e[1] = connector.connectedTo

\* a call that shows otherwise: after connect(manager 2), disconnect() and
\* connect(callback 1), handleContextChange has invoked the onContextChange
\* of manager 2
C30_StaleManager ==
  /\ connector.isConnected
  /\ connector.connectedTo = 1
  /\ connector.call.op = "handleContextChange"
  /\ << 2, "onContextChange" >> \in connector.call.invoked

\* createMemory, updateMemory or deleteMemory of the connector
Mutating == { "createMemory", "updateMemory", "deleteMemory" }

\* C31: in mode 'read-only' every step of the connector leaves the table as
\* it is, and createMemory, updateMemory and deleteMemory each end with the
\* read-only error (thrown before any call of storage)
C31_ReadOnlyChangesNothing ==
  [][ connector.config.mode = "read-only" =>
        /\ store' = store /\ nextId' = nextId /\ created' = created
        /\ connector'.config.mode = "read-only"
        /\ connector'.call.op \in Mutating =>
             connector'.call.error \in { ErrReadOnly("create"), ErrReadOnly("update"),
                                         ErrReadOnly("delete") }
    ]_vars

\* C31 witness: a read-only connector over a table with a memory has been
\* asked to delete it and has thrown
C31_Witness ==
  /\ connector.config.mode = "read-only"
  /\ connector.call.op = "deleteMemory"
  /\ connector.call.error = ErrReadOnly("delete")
  /\ 1 \in DOMAIN store

(***************************************************************************)
(* Properties of a delete that overlaps a call naming the deleted memory.  *)
(***************************************************************************)
\* the tables a handler call works on
Tables(st, next, hist) == [ store |-> st, nextId |-> next, created |-> hist ]

\* a call in progress, on the tables t
OnTables(m, t) ==
  [ m EXCEPT !.store = t.store, !.nextId = t.nextId, !.created = t.created ]

Returned(m) == m.pc \in { "done", "raised" }

\* the tables two calls in progress can leave once both have returned, their
\* steps taken in any order
RECURSIVE Completions(_, _, _)
Completions(a, b, t) ==
  IF Returned(a) /\ Returned(b) THEN { t }
  ELSE UNION ( { Completions(n, b, Tables(n.store, n.nextId, n.created)) :
                   n \in IF Returned(a) THEN {} ELSE Step(OnTables(a, t)) }
               \cup
               { Completions(a, n, Tables(n.store, n.nextId, n.created)) :
                   n \in IF Returned(b) THEN {} ELSE Step(OnTables(b, t)) } )

\* slot p has begun handleDeleteMemory(n), and read nothing yet, while slot r
\* runs handleUpdateMemoryLink(x, n, 'add') or a handleCreateMemory that
\* names n as related
DeleteRaces(p, r, n) ==
  LET a == running.calls[p]
      b == running.calls[r]
  IN /\ p # r /\ ~Free(p) /\ ~Free(r)
     /\ a.params.op = "delete" /\ a.params.memoryId = n
     /\ a.pc = "getDelete"
     /\ \/ b.params.op = "link" /\ b.params.action = "add"
           /\ b.params.toMemoryId = n
        \/ b.params.op = "create" /\ Includes(b.params.relatedMemoryIds, n)

\* the memories of a table that list n, n being no memory of the table
ListDeleted(t, n) ==
  IF n \in DOMAIN t.store THEN {}
  ELSE { y \in DOMAIN t.store : Includes(t.store[y].outgoingEdges, n) }

\* the memories the call of slot r writes edges of: the source of the link,
\* or the memory the create makes and the related memories it writes the
\* back-references into
WrittenBy(r) ==
  IF running.calls[r].params.op = "link"
  THEN { running.calls[r].params.memoryId }
  ELSE (Ids \ DOMAIN store) \cup { running.calls[r].newId }
         \cup Range(running.calls[r].params.relatedMemoryIds)

\* C32 as claimed: when handleDeleteMemory(n) overlaps a link add to n or a
\* create naming n, once both have returned no stored memory lists the
\* deleted n
C32_NoDanglingAfterRace ==
  \A p, r \in Procs, n \in Ids :
    DeleteRaces(p, r, n) =>
      \A t \in Completions(running.calls[p], running.calls[r],
                            Tables(store, nextId, created)) :
        ListDeleted(t, n) = {}

\* C32 amended: once both have returned, no stored memory lists the deleted
\* n but, possibly, those the overlapping call writes (the source of the
\* link; the created memory and the related memories it back-references)
C32_DanglingOnlyInWritten ==
  \A p, r \in Procs, n \in Ids :
    DeleteRaces(p, r, n) =>
      \A t \in Completions(running.calls[p], running.calls[r],
                            Tables(store, nextId, created)) :
        ListDeleted(t, n) \subseteq WrittenBy(r)

\* C32 witness: a handleUpdateMemoryLink(x, n, 'add') and a delete have both
\* returned success, n is deleted, and x lists n
C32_Witness ==
  \E p, r \in Procs, x \in Ids, n \in Ids :
    /\ Added(r, x, n)
    /\ Free(p) /\ running.calls[p].params.op = "delete"
    /\ running.calls[p].success
    /\ n \notin DOMAIN store
    /\ x \in DOMAIN store
    /\ Includes(store[x].outgoingEdges, n)

(***************************************************************************)
(* Properties of handleCreateMemory when a back-reference write fails.     *)
(***************************************************************************)
\* the runs of handleCreateMemory(params) in which a callback of the
\* back-linking Promise.all threw
FailedBackLinks(params) ==
  { m \in FaultyCalls(params) : m.rejected # <<>> }

\* C33: when the memory is created and a back-reference write then fails,
\* handleCreateMemory returns success = false with the error of the write,
\* while the new memory stays stored with its outgoing edges; a related
\* memory whose callbacks all failed is unchanged, one none of whose
\* callbacks failed has the back-reference, and no other memory is changed:
\* nothing is rolled back
C33_CreateNotAtomic ==
  \A params \in AllParams :
    params.op = "create" =>
      \A m \in FailedBackLinks(params) :
        /\ ~m.success
        /\ m.error = ErrAdapter
        /\ m.newId = nextId
        /\ DOMAIN m.store = DOMAIN store \cup { m.newId }
        /\ m.store[m.newId].outgoingEdges = params.relatedMemoryIds
        /\ m.store[m.newId].content = Trim(params.content)
        /\ \A x \in DOMAIN store :
             LET linked == [ store[x] EXCEPT
                               !.outgoingEdges = Append(@, m.newId) ]
                 named == { j \in 1..Len(params.relatedMemoryIds) :
                              params.relatedMemoryIds[j] = x }
                 failed == { j \in 1..Len(m.rejected) : m.rejected[j] = x }
             IN IF named = {} THEN m.store[x] = store[x]
                ELSE IF failed = {} THEN m.store[x] = linked
                ELSE IF Cardinality(failed) = Cardinality(named)
                THEN m.store[x] = store[x]
                ELSE m.store[x] \in { store[x], linked }

\* C33 witness: a run of handleCreateMemory naming two memories in which one
\* back-reference write failed and the other was applied
C33_Witness ==
  \E params \in AllParams :
    /\ params.op = "create"
    /\ \E m \in FailedBackLinks(params) :
         /\ Len(m.rejected) = 1
         /\ ~m.success
         /\ m.newId \in DOMAIN m.store
         /\ \E x \in DOMAIN store :
              /\ x \notin Range(m.rejected)
              /\ Includes(m.store[x].outgoingEdges, m.newId)

(***************************************************************************)
(* Properties of the result handleDeleteMemory reports.                    *)
(***************************************************************************)
\* C34: handleDeleteMemory reports what it did.  It returns success = true
\* only when the memory was stored and is removed; when it returns
\* success = false the memory, if it was stored, is stored still; and when a
\* cleanup write failed it returns success = false, storage.deleteMemory is
\* never reached, and every cleanup write that did not fail stays applied
C34_DeleteReportsAccurately ==
  \A id \in IdInputs :
    \A m \in FaultyCalls(DeleteParams(id)) :
      /\ m.success => id \in DOMAIN store /\ id \notin DOMAIN m.store
      /\ ~m.success => (id \in DOMAIN store <=> id \in DOMAIN m.store)
      /\ m.rejected # <<>> =>
           /\ ~m.success
           /\ id \in DOMAIN m.store
           /\ \A x \in DOMAIN store \ Range(m.rejected) :
                ~Includes(m.store[x].outgoingEdges, id)

\* C34 witness: a memory that two others point to, with a run of
\* handleDeleteMemory that removed it and returned success, and a run that
\* returned success = false after one cleanup write failed and one was
\* applied
C34_Witness ==
  \E id \in DOMAIN store :
    /\ \E m \in FaultyCalls(DeleteParams(id)) :
         m.success /\ id \notin DOMAIN m.store
    /\ \E m \in FaultyCalls(DeleteParams(id)) :
         /\ ~m.success /\ Len(m.rejected) = 1
         /\ id \in DOMAIN m.store
         /\ \E x \in DOMAIN store :
              /\ Includes(store[x].outgoingEdges, id)
              /\ ~Includes(m.store[x].outgoingEdges, id)

(***************************************************************************)
(* Properties of the embedding column.                                     *)
(***************************************************************************)
\* every row's embedding is the provider's embedding of the row's content
Coherent(st) ==
  \A x \in DOMAIN st : st[x].embedding = ProviderEmbedding(st[x].content)

\* handleCreateMemory and handleUpdateMemory calls, with two contents, their
\* steps interleaved
NextEmbedding ==
  \/ \E p \in Procs, content \in { << "a" >>, << " ", "b", " " >> } :
       Begin(p, CreateParams(content, << "p" >>, <<>>))
  \/ \E p \in Procs, memoryId \in Ids,
        content \in { << "a" >>, << " ", "b", " " >> } :
       Begin(p, UpdateParams(memoryId, content))
  \/ \E p \in Procs : Proceed(p)

SpecEmbedding == InitInterleaved /\ [][NextEmbedding]_vars

\* C35: with an embedding service, after every sequence and interleaving of
\* handleCreateMemory and handleUpdateMemory calls, wherever the provider
\* fails, every stored memory's embedding is the provider's embedding of its
\* content
C35_EmbeddingOfContent == embeddingService => Coherent(store)

\* C35 witness: with an embedding service, an update that failed at the
\* provider and an update that succeeded have both returned, and some
\* memory has the updated content and its embedding
C35_Witness ==
  /\ embeddingService
  /\ \E p, r \in Procs :
       /\ Free(p) /\ running.calls[p].params.op = "update"
       /\ running.calls[p].error = ErrProvider
       /\ Free(r) /\ running.calls[r].params.op = "update"
       /\ running.calls[r].success
  /\ \E x \in DOMAIN store :
       /\ store[x].content = << "b" >>
       /\ store[x].embedding = ProviderEmbedding(<< "b" >>)

(***************************************************************************)
(* Properties of the edge lists the handlers leave.                        *)
(***************************************************************************)
\* no memory of the table has the same id twice in its outgoingEdges
NoDuplicateEdges(st) ==
  \A x \in DOMAIN st :
    \A j, k \in 1..Len(st[x].outgoingEdges) :
      st[x].outgoingEdges[j] = st[x].outgoingEdges[k] => j = k

\* C36: after every sequence of handler calls, one after the other, from a
\* table without duplicate edges, whatever the inputs (relatedMemoryIds with
\* repeats included), no memory has the same id twice in its outgoingEdges
C36_NoDuplicateEdges == NoDuplicateEdges(store)

\* C36 witness: a table without duplicate edges on which a
\* handleCreateMemory call naming the same related memory twice succeeds and
\* stores the new memory with that id twice in its outgoingEdges
C36_Witness ==
  /\ NoDuplicateEdges(store)
  /\ \E x \in DOMAIN store :
       \E m \in Calls(CreateParams(<< "a" >>, store[x].entityId, << x, x >>)) :
         /\ m.success
         /\ m.store[m.newId].outgoingEdges = << x, x >>

(***************************************************************************)
(* Properties of the ways withRetry ends.                                  *)
(***************************************************************************)
\* generateEmbedding has ended, and not by rejecting an empty text: its
\* withRetry has ended
RetryEnded == retry.pc = "done" /\ retry.result # ErrEmptyText

\* C37: withRetry throws 'Failed after retries' exactly when maxRetries < 0,
\* and then no provider call was made; with maxRetries >= 0 it ends with the
\* provider's result, with the error of the last provider call, or with
\* 'Operation aborted'
C37_FailedAfterRetries ==
  RetryEnded =>
    /\ retry.result = ErrRetries <=> retry.options.maxRetries < 0
    /\ retry.result = ErrRetries => retry.outcomes = <<>>
    /\ retry.options.maxRetries >= 0 =>
         /\ retry.result \in { "ok", ErrProvider, ErrAborted }
         /\ retry.outcomes # <<>>
         /\ retry.result = "ok" => retry.outcomes[Len(retry.outcomes)]
         /\ retry.result = ErrProvider =>
              /\ retry.errorOf = Len(retry.outcomes)
              /\ ~retry.outcomes[Len(retry.outcomes)]

\* C37 witness: a call with maxRetries = -1 has ended with 'Failed after
\* retries' and no provider call
C37_Witness ==
  /\ RetryEnded
  /\ retry.options.maxRetries = -1
  /\ retry.result = ErrRetries
  /\ retry.outcomes = <<>>
  /\ retry.given # <<>>

\* the provider calls the call has started: those that have settled and the
\* one awaited
Started(r) == Len(r.outcomes) + IF r.pc = "call" THEN 1 ELSE 0

\* the provider call that failed last was the last attempt allowed
LastAttemptFailed(r) ==
  /\ r.pc = "done"
  /\ r.options.maxRetries >= 0
  /\ Len(r.outcomes) = r.options.maxRetries + 1
  /\ ~r.outcomes[Len(r.outcomes)]

\* C38: from the moment the signal is aborted, generateEmbedding starts at
\* most one further provider call; and when the provider call that failed
\* was the last attempt allowed, the call ends with the provider's error,
\* not with 'Operation aborted', aborted or not
C38_OneCallAfterAbort ==
  /\ \A n \in 0..(DefaultMaxRetries + MaxRetriesGiven + 1) :
       []( (aborted /\ retry.options.signal /\ Started(retry) = n) =>
             [](Started(retry) <= n + 1) )
  /\ [](LastAttemptFailed(retry) =>
          retry.result = ErrProvider /\ retry.errorOf = Len(retry.outcomes))

\* C38 witness: the signal was aborted and the call, allowed one retry, has
\* ended with the provider's error after its second provider call failed
C38_Witness ==
  /\ aborted /\ retry.options.signal
  /\ LastAttemptFailed(retry)
  /\ retry.options.maxRetries = 1
  /\ retry.outcomes = << FALSE, FALSE >>
  /\ retry.result = ErrProvider

(***************************************************************************)
(* Properties of MemoryGenerator.collectAugmentation.                      *)
(***************************************************************************)
\* collectAugmentation has returned its two lists
AugmentationReturned == trav.pc = "done" /\ trav.error = ""

\* seq is what is left of whole when it is cut at some length
Prefix(seq, whole) ==
  Len(seq) <= Len(whole) /\ seq = SubSeq(whole, 1, Len(seq))

\* C39: collectAugmentation returns vectorMemories and graphMemories with at
\* most limit memories together and no memory in both; the graph list is
\* cut first (when a vector hit is dropped no graph memory is returned);
\* and when the vector search returns nothing, no graph traversal is issued
\* and graphMemories is empty
C39_AugmentationWithinLimit ==
  /\ trav.traversed => trav.vector # <<>>
  /\ AugmentationReturned =>
       /\ Len(trav.vectorMemories) + Len(trav.graphMemories) <= trav.limit
       /\ Range(trav.vectorMemories) \cap Range(trav.graphMemories) = {}
       /\ Prefix(trav.vectorMemories, trav.vector)
       /\ Prefix(trav.graphMemories,
                 FilterVisited(trav.connected, Range(trav.vector)))
       /\ Len(trav.vectorMemories) < Len(trav.vector) =>
            trav.graphMemories = <<>>
       /\ trav.vector = <<>> =>
            ~trav.traversed /\ trav.graphMemories = <<>>

\* C39 witness: with limit 2, one vector hit and two memories connected to
\* it, the call returns the hit and one of the two
C39_Witness ==
  /\ AugmentationReturned
  /\ trav.limit = 2
  /\ Len(trav.vectorMemories) = 1
  /\ Len(FilterVisited(trav.connected, Range(trav.vector))) = 2
  /\ Len(trav.graphMemories) = 1

(***************************************************************************)
(* Properties of the configuration getContext uses.                        *)
(***************************************************************************)
\* C40: getContext uses the configured chainDepth, maxMemoryCount and
\* similarityThreshold, whatever their values, 0 included: the search is
\* given the configured count and threshold, the traversal the configured
\* depth; with chainDepth 0 the list holds vector hits only, and with
\* maxMemoryCount 0 it is empty
C40_ConfiguredValuesUsed ==
  ContextReturned =>
    /\ connector.call.limit = connector.config.maxMemoryCount
    /\ connector.call.threshold = connector.config.similarityThreshold
    /\ connector.call.chainDepth = connector.config.chainDepth
    /\ connector.config.chainDepth = 0 =>
         Range(connector.call.memories) \subseteq Range(connector.call.vector)
    /\ connector.config.maxMemoryCount = 0 => connector.call.memories = <<>>

\* C40 witness: a connector configured with maxMemoryCount 0 and chainDepth
\* 0 whose getContext returns a memory found over an edge
C40_Witness ==
  /\ ContextReturned
  /\ connector.config.maxMemoryCount = 0
  /\ connector.config.chainDepth = 0
  /\ connector.config.similarityThreshold = 0
  /\ connector.call.threshold = DefaultSimilarityThreshold
  /\ \E id \in Range(connector.call.memories) : ~Phase1(id)

====
